---- MODULE Spec2Model ----
(***************************************************************************)
(* Verification model of the "exploded" puzzle engine.                     *)
(*                                                                         *)
(* Part 1: Board<WIDTH, HEIGHT> (src/src/board.rs): remove, apply_gravity  *)
(*         and feed, with the cells' ids.                                  *)
(* Part 2: the uniform-cycle BombGenerator and Game::next_row              *)
(*         (src/crates/client/src/game/normal.rs).                         *)
(* Part 3: the load-balancing SpreadBombGenerator (src/src/game/hard.rs).  *)
(* Part 4: the animation combinators (src/crates/client/src/animation.rs)  *)
(*         and SoundPlayer (src/src/game/animation.rs).                    *)
(* Part 5: the normal Game under its reducer                               *)
(*         (src/crates/client/src/game/normal.rs, src/src/game/board.rs).  *)
(* Part 6: AnimationChain (src/src/animation.rs), the running schedule of  *)
(*         AnimatedBoard (a FloatAnimator over an AnimationStream), and    *)
(*         CellAnimator, ParticleAnimator and NumberAnimator               *)
(*         (src/src/game/animation.rs).                                    *)
(***************************************************************************)
EXTENDS Integers, Sequences, FiniteSets, TLC

(***************************************************************************)
(* Board<const WIDTH, const HEIGHT> is generic in its size; the game       *)
(* instantiates it 8 x 9 and the unit tests 3 x 4 and 4 x 3.  The model    *)
(* instantiates Board<3, 3>, the smallest grid with an interior slot (one  *)
(* whose eight neighbours all lie on the grid).                            *)
(***************************************************************************)
WIDTH == 3
HEIGHT == 3

\* a run makes at most MaxCalls calls on its Board
MaxCalls == 5
\* a run draws at most MaxDraws times from its BombGenerator
MaxDraws == 7
\* a run draws at most MaxSpreadDraws times from its SpreadBombGenerator
MaxSpreadDraws == 3
\* a Double runs for at most MaxDuration frames
MaxDuration == 3
\* an AnimationStream is offered an animation while it holds fewer than MaxQueue
MaxQueue == 3
\* one advance_frames call passes at most MaxFrames frames
MaxFrames == 3
\* a run calls FloatAnimator::animate at most MaxTicks times
MaxTicks == 3
\* a SoundPlayer is given at most MaxCues cues, at offsets up to MaxOffset,
\* and a run makes at most MaxSoundCalls calls on it
MaxCues == 2
MaxOffset == 2
MaxSoundCalls == 4
\* an Animator or EndlessAnimator is constructed with at most MaxMembers
\* members, and an EndlessAnimator is pushed to while it holds fewer than MaxPool
MaxMembers == 2
MaxPool == 3
\* a run dispatches at most MaxDispatches actions to its Game
MaxDispatches == 5
\* Game.bombs_limit, 999 in the program, scaled to the small board
BombsLimit == 3
\* a run passes at most MaxChainFrames frames to its AnimationChain
MaxChainFrames == 8
\* an AnimationStream accepts at most MaxPushes animations in a run, and is
\* passed at most MaxStreamFrames frames
MaxPushes == 4
MaxStreamFrames == 10
\* a run makes at most MaxScheduleCalls calls (ticks and pushes) on the
\* running schedule
MaxScheduleCalls == 4
\* a CellAnimator or ParticleAnimator waits at most MaxDelay frames and is
\* passed at most MaxTimedFrames frames
MaxDelay == 2
MaxTimedFrames == 7
\* a NumberAnimator is given targets up to MaxTarget, at most MaxTargets
\* times, and is passed at most MaxNumberFrames frames
MaxTarget == 9
MaxTargets == 2
MaxNumberFrames == 6
MaxSteps == 2
MaxHandled == 4
MaxPlayers == 4
MaxRounds == 1
MaxUnsampled == 5
SectionLevels == 3
MasterSection == 1

Cols == 0 .. (WIDTH - 1)
Rows == 0 .. (HEIGHT - 1)

(***************************************************************************)
(* CellType, Cell and Option<Cell>.                                        *)
(***************************************************************************)
CellType == {"Tile", "Bomb"}

None == [some |-> FALSE]

Cell(id, cell_type) == [some |-> TRUE, id |-> id, cell_type |-> cell_type]

VARIABLES
    cells,            \* Board.cells: cells[x][y], x the column, y the row
    generated_cells,  \* Board.generated_cells: the id counter
    op,               \* the last call on the Board: its name and arguments
    ret,              \* what the last call returned
    pre,              \* Board.cells as the last call found it
    pre_generated,    \* Board.generated_cells as the last call found it
    minted,           \* the ids minted so far, in minting order
    calls,            \* the number of calls made on the Board
    shuffled,         \* BombGenerator.shuffled: the bag, popped from its end
    draws,            \* what BombGenerator::next returned so far, in order
    row,              \* what Game::next_row returned last
    spread,           \* a SpreadBombGenerator: generated, and its last call
    stream,           \* an AnimationStream: animations, and its last call
    floating,         \* a FloatAnimator, the clock and what animate passed on
    player,           \* a SoundPlayer, the cues given and the samples taken
    animator,         \* an Animator, its members as given and the samples taken
    endless,          \* an EndlessAnimator: animations, and its last call
    game,             \* a normal Game: board, queue, generator, score, bombs
    dispatched,       \* the last action dispatched to game and the game before
    chain,            \* an AnimationChain and the frames passed to it
    schedule,         \* a FloatAnimator over an AnimationStream, and its clock
    timed,            \* a CellAnimator or ParticleAnimator, and its last call
    number,           \* a NumberAnimator, and its last call
    steps,            \* an AnimatedBoard's queue of steps, and what left it
    online,           \* a server BoardManager, the wire and the client's board
    hard,             \* a GameHard: board, level, section, grade, last action
    lobby             \* the Matchmaker, its games and the players' inboxes

boardVars == <<cells, generated_cells, op, ret, pre, pre_generated, minted, calls>>
genVars == <<shuffled, draws, row>>
combVars == <<spread, stream, floating, player, animator, endless, game, dispatched>>
moreVars == <<chain, schedule, timed, number>>
lastVars == <<steps, online, hard, lobby>>
partVars == <<spread, stream, floating, player, animator, endless, game, dispatched,
              chain, schedule, timed, number, steps, online, hard, lobby>>
vars == <<cells, generated_cells, op, ret, pre, pre_generated, minted, calls,
          shuffled, draws, row,
          spread, stream, floating, player, animator, endless, game, dispatched,
          chain, schedule, timed, number, steps, online, hard, lobby>>

(***************************************************************************)
(* adjacent_cells(x, y, width, height): the offsets in the order the       *)
(* iterator yields them, (0, 0) skipped, negative coordinates dropped by   *)
(* try_into, then clipped to the grid.                                     *)
(***************************************************************************)
Offsets ==
    << <<-1, -1>>, <<-1, 0>>, <<-1, 1>>,
       <<0, -1>>,  <<0, 0>>,  <<0, 1>>,
       <<1, -1>>,  <<1, 0>>,  <<1, 1>> >>

RECURSIVE AdjacentFrom(_, _, _, _, _)
AdjacentFrom(i, x, y, width, height) ==
    IF i > Len(Offsets) THEN <<>>
    ELSE LET vx == Offsets[i][1]
             vy == Offsets[i][2]
             rest == AdjacentFrom(i + 1, x, y, width, height)
         IN  IF /\ <<vx, vy>> # <<0, 0>>
                /\ x + vx >= 0
                /\ y + vy >= 0
                /\ x + vx < width
                /\ y + vy < height
             THEN << <<x + vx, y + vy>> >> \o rest
             ELSE rest

\* the four orthogonal neighbours only
adjacent_cells_orthogonal(x, y, width, height) ==
    SelectSeq(AdjacentFrom(1, x, y, width, height),
              LAMBDA p : p[1] = x \/ p[2] = y)

adjacent_cells(x, y, width, height) == AdjacentFrom(1, x, y, width, height)

(***************************************************************************)
(* Board::new                                                              *)
(***************************************************************************)
BoardNew == [x \in Cols |-> [y \in Rows |-> None]]

(***************************************************************************)
(* Board::remove: the work queue holds <<x, y, dist>>; a popped slot is    *)
(* taken (emptied); a taken cell is pushed to dists, and a Bomb enqueues   *)
(* its neighbours at dist + 1.                                             *)
(***************************************************************************)
\* the slot of the nearest in-range coordinate instead of None
GetCellClamped(c, x, y) ==
    c[IF x < WIDTH THEN x ELSE WIDTH - 1][IF y < HEIGHT THEN y ELSE HEIGHT - 1]

\* self.cells.get_mut(x).and_then(|x| x.get_mut(y)): None when out of range
GetCell(c, x, y) ==
    IF x \in Cols /\ y \in Rows THEN c[x][y] ELSE None

\* Option::take on the slot get_mut found
TakeCell(c, x, y) ==
    IF x \in Cols /\ y \in Rows
    THEN [c EXCEPT ![x] = [@ EXCEPT ![y] = None]]
    ELSE c

\* the neighbours enqueued at the distance of the Bomb itself
NeighboursSameDist(x, y, dist) ==
    LET adj == adjacent_cells(x, y, WIDTH, HEIGHT)
    IN  [i \in 1 .. Len(adj) |-> <<adj[i][1], adj[i][2], dist>>]

\* for (x, y) in adjacent_cells(..) { queue.push_back((x, y, dist + 1)) }
Neighbours(x, y, dist) ==
    LET adj == adjacent_cells(x, y, WIDTH, HEIGHT)
    IN  [i \in 1 .. Len(adj) |-> <<adj[i][1], adj[i][2], dist + 1>>]

RECURSIVE RemoveLoop(_, _, _)
RemoveLoop(c, queue, dists) ==
    IF queue = <<>> THEN [cells |-> c, dists |-> dists]
    ELSE LET x == Head(queue)[1]
             y == Head(queue)[2]
             dist == Head(queue)[3]
             cell == GetCell(c, x, y)
             c2 == TakeCell(c, x, y)
         IN  IF cell.some
             THEN RemoveLoop(
                    c2,
                    IF cell.cell_type = "Bomb"
                    THEN Tail(queue) \o Neighbours(x, y, dist)
                    ELSE Tail(queue),
                    Append(dists, <<cell.id, dist, x, y, cell.cell_type>>))
             ELSE RemoveLoop(c2, Tail(queue), dists)

BoardRemove(c, x, y) == RemoveLoop(c, << <<x, y, 0>> >>, <<>>)

(***************************************************************************)
(* Board::apply_gravity: per column, rows from HEIGHT-1 down to 0, with    *)
(* the count of blank slots met so far; an occupied slot is swapped with   *)
(* the slot blank_cells_below rows below it.                               *)
(***************************************************************************)
\* a copy to b that leaves a as it was
SwapCopy(column, a, b) == [column EXCEPT ![b] = column[a]]

\* slice::swap(a, b)
Swap(column, a, b) == [column EXCEPT ![a] = column[b], ![b] = column[a]]

\* BTreeMap::insert
MapInsert(map, k, v) == [i \in DOMAIN map \cup {k} |-> IF i = k THEN v ELSE map[i]]

\* BTreeMap::new
EmptyMap == [i \in {} |-> 0]

\* the insert without its guard
RecordFallAlways(fall_distance, id, blank_cells_below) ==
    MapInsert(fall_distance, id, blank_cells_below)

\* the row the cell lands on recorded in place of the rows it fell
RecordFallOffByOne(fall_distance, id, blank_cells_below) ==
    IF blank_cells_below > 0
    THEN MapInsert(fall_distance, id, blank_cells_below + 1)
    ELSE fall_distance

\* if blank_cells_below > 0 { fall_distance.insert(id, blank_cells_below) }
RecordFall(fall_distance, id, blank_cells_below) ==
    IF blank_cells_below > 0
    THEN MapInsert(fall_distance, id, blank_cells_below)
    ELSE fall_distance

\* the slot one row below the landing slot
SwapTargetOffByOne(y, blank_cells_below) == y + blank_cells_below + 1

\* the second index of self.cells[x].swap(y, y + blank_cells_below)
SwapTarget(y, blank_cells_below) == y + blank_cells_below

RECURSIVE GravityColumn(_, _, _, _)
GravityColumn(column, y, blank_cells_below, fall_distance) ==
    IF y < 0 THEN [column |-> column, fall_distance |-> fall_distance]
    ELSE IF column[y].some
         THEN GravityColumn(
                Swap(column, y, SwapTarget(y, blank_cells_below)),
                y - 1,
                blank_cells_below,
                RecordFall(fall_distance, column[y].id, blank_cells_below))
         ELSE GravityColumn(column, y - 1, blank_cells_below + 1, fall_distance)

RECURSIVE GravityLoop(_, _, _)
GravityLoop(c, x, fall_distance) ==
    IF x >= WIDTH THEN [cells |-> c, fall_distance |-> fall_distance]
    ELSE LET r == GravityColumn(c[x], HEIGHT - 1, 0, fall_distance)
         IN  GravityLoop([c EXCEPT ![x] = r.column], x + 1, r.fall_distance)

BoardApplyGravity(c) == GravityLoop(c, 0, EmptyMap)

(***************************************************************************)
(* Board::feed: the new cells take the ids generated_cells,                *)
(* generated_cells + 1, ... by column; each column is rotated left by one  *)
(* and its last slot overwritten with the new cell.                        *)
(***************************************************************************)
\* the counter read once for the whole row
FeedRowSameId(gen, kinds) == [x \in Cols |-> Cell(gen, kinds[x])]

\* row.map(|cell| { Cell::new(self.generated_cells, cell); generated_cells += 1 })
FeedRow(gen, kinds) == [x \in Cols |-> Cell(gen + x, kinds[x])]

\* slice::rotate_right(1)
RotateRight1(column) == [y \in Rows |-> column[(y + HEIGHT - 1) % HEIGHT]]

\* slice::rotate_left(1)
RotateLeft1(column) == [y \in Rows |-> column[(y + 1) % HEIGHT]]

\* the last slot overwritten without the rotation
FeedColumnNoRotate(column, cell) == [column EXCEPT ![HEIGHT - 1] = cell]

\* the new cell put on top of the column
FeedColumnOnTop(column, cell) == [RotateLeft1(column) EXCEPT ![0] = cell]

\* column.rotate_left(1); *column.last_mut().unwrap() = Some(cell)
FeedColumn(column, cell) == [RotateLeft1(column) EXCEPT ![HEIGHT - 1] = cell]

BoardFeed(c, gen, kinds) ==
    LET new == FeedRow(gen, kinds)
    IN  [cells |-> [x \in Cols |-> FeedColumn(c[x], new[x])],
         generated_cells |-> gen + WIDTH,
         row |-> new]

(***************************************************************************)
(* The uniform-cycle BombGenerator<(usize, usize)> of the normal Game.     *)
(***************************************************************************)
RECURSIVE PairsFrom(_, _)
PairsFrom(first, second) ==
    IF first >= WIDTH THEN <<>>
    ELSE IF second >= WIDTH THEN PairsFrom(first + 1, first + 2)
    ELSE << <<first, second>> >> \o PairsFrom(first, second + 1)

\* the enumeration begun at the pair (0, 0): a column paired with itself
generate_x_pairs_from_first == PairsFrom(0, 0)

\* (0..WIDTH).flat_map(|first| (first + 1..WIDTH).map(|second| (first, second)))
generate_x_pairs == PairsFrom(0, 1)

\* shuffled.shuffle(&mut self.rng): any order of the vector may come out
Shuffles(v) ==
    {[i \in 1 .. Len(v) |-> v[p[i]]] : p \in Permutations(1 .. Len(v))}

\* Vec::pop
PopValue(v) == v[Len(v)]
PopRest(v) == SubSeq(v, 1, Len(v) - 1)

\* let mut row = [Tile; WIDTH]; row[bombs.0] = Bomb; row[bombs.1] = Bomb
RowOfBombs(bombs) ==
    [x \in Cols |-> IF x = bombs[1] \/ x = bombs[2] THEN "Bomb" ELSE "Tile"]

(***************************************************************************)
(* The load-balancing generator: SpreadBombGenerator of the hard game      *)
(* (src/src/game/hard.rs).  The server's BombGenerator                     *)
(* (src/crates/server/src/game.rs) is the same code.  The random number    *)
(* r of gen_range(0..sum) is an input of the operators.                    *)
(***************************************************************************)
\* generated: [0; WIDTH], in new and in reset
SpreadNew == [x \in Cols |-> 0]

\* generated.map(|x| 1 << ((max - x) * 2)); the shift stays below the width
\* of usize while max - x < 16
possibility(generated) ==
    LET max == CHOOSE m \in {generated[x] : x \in Cols} :
                  \A x \in Cols : generated[x] <= m
    IN  [x \in Cols |-> 2 ^ ((max - generated[x]) * 2)]

\* array[0] + ... + array[x]
RECURSIVE SumTo(_, _)
SumTo(array, x) == IF x < 0 THEN 0 ELSE SumTo(array, x - 1) + array[x]

\* iter.scan(0, |acc, x| { *acc += x; Some(*acc) })
cumulate(array) == [x \in Cols |-> SumTo(array, x)]

\* cumulate(..).enumerate().filter(|&(_, x)| r < x).map(|(i, _)| i).next()
Pick(weights, r) ==
    LET cumulative == cumulate(weights)
    IN  CHOOSE i \in Cols :
           r < cumulative[i] /\ \A j \in 0 .. i - 1 : ~(r < cumulative[j])

\* the counter raised by two
IncrementedTwice(generated, x) == [generated EXCEPT ![x] = @ + 2]

\* self.generated[x] += 1
Incremented(generated, x) == [generated EXCEPT ![x] = @ + 1]

\* next_single with gen_range returning r
next_single(generated, r) ==
    LET bomb == Pick(possibility(generated), r)
    IN  [generated |-> Incremented(generated, bomb), ret |-> <<bomb>>]

\* the weights left as they are
NotExcluded(weights, left) == weights

\* possibility[left] = 0
Excluded(weights, left) == [weights EXCEPT ![left] = 0]

\* next_double with gen_range returning r1, then r2
next_double(generated, r1, r2) ==
    LET weights == possibility(generated)
        left == Pick(weights, r1)
        right == Pick(Excluded(weights, left), r2)
    IN  [generated |-> Incremented(Incremented(generated, left), right),
         ret |-> <<left, right>>]

(***************************************************************************)
(* The Animation trait (src/crates/client/src/animation.rs) and its two    *)
(* leaf animations: ConstantAnimation, over from the start, and the unit   *)
(* tests' Double, which runs for a fixed number of frames.                 *)
(***************************************************************************)
ConstantAnimation(frame) ==
    [kind |-> "ConstantAnimation", frame |-> frame, elapsed |-> 0, duration |-> 0]

Double(duration) ==
    [kind |-> "Double", frame |-> 0, elapsed |-> 0, duration |-> duration]

advance_frames(a, frames) ==
    IF a.kind = "Double" THEN [a EXCEPT !.elapsed = @ + frames] ELSE a

current_frame(a) == IF a.kind = "Double" THEN a.elapsed * 2 ELSE a.frame

is_over(a) == IF a.kind = "Double" THEN a.elapsed >= a.duration ELSE TRUE

(***************************************************************************)
(* Animator: the parallel group.                                           *)
(***************************************************************************)
AnimatorAdvance(animations, frames) ==
    [i \in 1 .. Len(animations) |-> advance_frames(animations[i], frames)]

AnimatorFrame(animations) ==
    [i \in 1 .. Len(animations) |-> current_frame(animations[i])]

\* over as soon as one member is
AnimatorIsOverAny(animations) ==
    animations = <<>> \/ \E i \in 1 .. Len(animations) : is_over(animations[i])

\* self.animations.iter().all(|x| x.is_over())
AnimatorIsOver(animations) ==
    \A i \in 1 .. Len(animations) : is_over(animations[i])

(***************************************************************************)
(* AnimationStream: the serial queue.                                      *)
(***************************************************************************)
\* the frames left when the head ends are lost
RECURSIVE StreamLoopLosing(_, _)
StreamLoopLosing(animations, frames) ==
    IF frames = 0 \/ animations = <<>> THEN animations
    ELSE LET first == advance_frames(Head(animations), 1)
         IN  IF is_over(first) THEN Tail(animations)
             ELSE StreamLoopLosing(<<first>> \o Tail(animations), frames - 1)

\* for _ in 0..frames { advance the head by 1, or break; drop it if over }
RECURSIVE StreamLoop(_, _)
StreamLoop(animations, frames) ==
    IF frames = 0 \/ animations = <<>> THEN animations
    ELSE LET first == advance_frames(Head(animations), 1)
         IN  StreamLoop(IF is_over(first)
                        THEN Tail(animations)
                        ELSE <<first>> \o Tail(animations),
                        frames - 1)

\* the head given all the frames in one piece, then dropped if over
StreamAdvanceAtOnce(animations, frames) ==
    IF frames = 0 \/ animations = <<>> THEN animations
    ELSE LET first == advance_frames(Head(animations), frames)
         IN  IF is_over(first)
             THEN Tail(animations)
             ELSE <<first>> \o Tail(animations)

StreamAdvance(animations, frames) == StreamLoop(animations, frames)

\* the push without its guard
StreamPushAlways(animations, a) == Append(animations, a)

\* if !animation.is_over() { self.animations.push(Box::new(animation)) }
StreamPush(animations, a) ==
    IF ~is_over(a) THEN Append(animations, a) ELSE animations

\* the sample of the animation pushed last
StreamFrameLast(animations) ==
    IF animations = <<>> THEN None
    ELSE [some |-> TRUE, frame |-> current_frame(animations[Len(animations)])]

\* self.animations.first().map(|x| x.current_frame())
StreamFrame(animations) ==
    IF animations = <<>> THEN None
    ELSE [some |-> TRUE, frame |-> current_frame(Head(animations))]

(***************************************************************************)
(* EndlessAnimator: the unbounded pool.                                    *)
(***************************************************************************)
\* animations.into_iter().rev().collect()
EndlessNew(animations) ==
    [i \in 1 .. Len(animations) |-> animations[Len(animations) + 1 - i]]

EndlessPush(animations, a) == Append(animations, a)

\* every member advanced and none pruned
EndlessAdvanceKeepAll(animations, frames) == AnimatorAdvance(animations, frames)

\* every member advanced, then retain(|x| !x.is_over())
EndlessAdvance(animations, frames) ==
    SelectSeq(AnimatorAdvance(animations, frames), LAMBDA a : ~is_over(a))

\* fn is_over(&self) -> bool { true }
EndlessIsOver(animations) == TRUE

(***************************************************************************)
(* SoundPlayer (src/src/game/animation.rs): events holds the pending       *)
(* cues <<offset, sound>>, latest first, and is popped from its end;       *)
(* current holds the cues that are due and not yet sampled.                *)
(***************************************************************************)
\* the cues left in the order given
Unsorted(events) == events

RECURSIVE InsertByReverseKey(_, _)
InsertByReverseKey(sorted, e) ==
    IF sorted = <<>> THEN <<e>>
    ELSE IF Head(sorted)[1] >= e[1]
         THEN <<Head(sorted)>> \o InsertByReverseKey(Tail(sorted), e)
         ELSE <<e>> \o sorted

\* events.sort_by_key(|x| Reverse(x.0)): stable, the latest offset first
RECURSIVE SortByReverseKey(_)
SortByReverseKey(events) ==
    IF events = <<>> THEN <<>>
    ELSE InsertByReverseKey(SortByReverseKey(PopRest(events)), PopValue(events))

\* a cue due only once the frames have passed its offset
DueLate(offset, frames_elapsed) == offset < frames_elapsed

\* offset <= self.frames_elapsed
Due(offset, frames_elapsed) == offset <= frames_elapsed

\* while let Some(&(offset, _)) = events.last() { if due { pop, push } else break }
RECURSIVE SoundDrain(_)
SoundDrain(p) ==
    IF p.events # <<>> /\ Due(PopValue(p.events)[1], p.frames_elapsed)
    THEN SoundDrain([p EXCEPT !.events = PopRest(@),
                              !.current = Append(@, PopValue(p.events)[2])])
    ELSE p

SoundAdvance(p, frames) ==
    SoundDrain([p EXCEPT !.frames_elapsed = @ + frames])

\* SoundPlayer::new sorts, then calls advance_frames(0)
SoundNew(events) ==
    SoundAdvance([frames_elapsed |-> 0,
                  events |-> SortByReverseKey(events),
                  current |-> <<>>], 0)

(***************************************************************************)
(* FloatAnimator::animate computes the frames elapsed in f64 (binary64):   *)
(* (elapsed / 1000.0 * 60.0).floor() as usize, elapsed a whole number of   *)
(* milliseconds.  A positive f64 is modelled by the MANTISSA bits of its   *)
(* significand, most significant first, and the exponent exp of the first  *)
(* bit; the division and the product round to nearest, ties to even.       *)
(***************************************************************************)
MANTISSA == 53

\* the bits of the integer n, most significant first; <<>> for 0
BitsOf(n) ==
    LET length == CHOOSE l \in 0 .. 30 : n < 2 ^ l /\ (l = 0 \/ n >= 2 ^ (l - 1))
    IN  [i \in 1 .. length |-> (n \div 2 ^ (length - i)) % 2]

RECURSIVE ValueOf(_)
ValueOf(bits) ==
    IF bits = <<>> THEN 0
    ELSE 2 * ValueOf(PopRest(bits)) + PopValue(bits)

\* 2^i mod d
RECURSIVE Pow2Mod(_, _)
Pow2Mod(i, d) ==
    IF i = 0 THEN 1 % d
    ELSE LET h == Pow2Mod(i \div 2, d)
         IN  (h * h * (IF i % 2 = 1 THEN 2 ELSE 1)) % d

\* the first n bits of the fraction r / d, r < d, and whether more follow
FractionBits(r, d, n) ==
    [bits |-> [i \in 1 .. n |-> (2 * ((r * Pow2Mod(i - 1, d)) % d)) \div d],
     inexact |-> (r * Pow2Mod(n, d)) % d # 0]

\* bits, exact or cut short (inexact), rounded to MANTISSA bits
RoundToNearest(bits, exp, inexact) ==
    IF Len(bits) <= MANTISSA
    THEN [bits |-> bits \o [i \in 1 .. MANTISSA - Len(bits) |-> 0], exp |-> exp]
    ELSE LET kept == SubSeq(bits, 1, MANTISSA)
             guard == bits[MANTISSA + 1]
             sticky == inexact \/ \E i \in MANTISSA + 2 .. Len(bits) : bits[i] = 1
             up == guard = 1 /\ (sticky \/ kept[MANTISSA] = 1)
             carried == \A i \in 1 .. MANTISSA : kept[i] = 1
             last == CHOOSE i \in 1 .. MANTISSA :
                        kept[i] = 0 /\ \A j \in i + 1 .. MANTISSA : kept[j] = 1
         IN  IF ~up THEN [bits |-> kept, exp |-> exp]
             ELSE IF carried
             THEN [bits |-> [i \in 1 .. MANTISSA |-> IF i = 1 THEN 1 ELSE 0],
                   exp |-> exp + 1]
             ELSE [bits |-> [i \in 1 .. MANTISSA |->
                               IF i < last THEN kept[i]
                               ELSE IF i = last THEN 1 ELSE 0],
                   exp |-> exp]

\* n as f64 / d as f64, for integers n > 0 and d > 0
F64Div(n, d) ==
    LET int == BitsOf(n \div d)
        r == n % d
        zeros == CHOOSE z \in 0 .. 30 :
                    r * 2 ^ (z + 1) >= d /\ (z = 0 \/ r * 2 ^ z < d)
    IN  IF int # <<>>
        THEN LET f == FractionBits(r, d, MANTISSA + 1 - Len(int))
             IN  RoundToNearest(int \o f.bits, Len(int) - 1, f.inexact)
        ELSE LET f == FractionBits((r * 2 ^ zeros) % d, d, MANTISSA + 1)
             IN  RoundToNearest(f.bits, -(zeros + 1), f.inexact)

\* limbs, digits in base 4096, times k: the bits of the product
RECURSIVE TimesFrom(_, _, _, _)
TimesFrom(limbs, k, i, carry) ==
    IF i = 0 THEN BitsOf(carry)
    ELSE LET t == limbs[i] * k + carry
         IN  TimesFrom(limbs, k, i - 1, t \div 4096)
             \o [j \in 1 .. 12 |-> ((t % 4096) \div 2 ^ (12 - j)) % 2]

\* a * (k as f64) for a small integer k > 0
F64Times(a, k) ==
    LET n == (MANTISSA + 11) \div 12
        padded == [i \in 1 .. 12 * n - MANTISSA |-> 0] \o a.bits
        limbs == [l \in 1 .. n |->
                    ValueOf(SubSeq(padded, 12 * (l - 1) + 1, 12 * l))]
        product == TimesFrom(limbs, k, n, 0)
        first == CHOOSE i \in 1 .. Len(product) :
                    product[i] = 1 /\ \A j \in 1 .. i - 1 : product[j] = 0
        p == SubSeq(product, first, Len(product))
    IN  RoundToNearest(p, a.exp + Len(p) - MANTISSA, FALSE)

\* a.floor() as usize
F64Floor(a) == IF a.exp < 0 THEN 0 ELSE ValueOf(SubSeq(a.bits, 1, a.exp + 1))

\* (elapsed / 1000.0 * 60.0).floor() as usize; the cast of a negative
\* number gives 0
Frames(elapsed) ==
    IF elapsed <= 0 THEN 0
    ELSE F64Floor(F64Times(F64Div(elapsed, 1000), 60))

\* the counter left as it was
StoredNever(elapsed_frames, frames) == elapsed_frames

\* self.elapsed_frames = frames
Stored(elapsed_frames, frames) == frames

\* FloatAnimator::new with Date::now() reading t
FloatNew(t, animation) ==
    [begin_at |-> t, elapsed_frames |-> 0, animation |-> animation]

(***************************************************************************)
(* The normal Game (src/crates/client/src/game/normal.rs) on its           *)
(* AnimatedBoard (src/src/game/board.rs).  queue is the AnimationStream    *)
(* of board.animator: one entry for each step pushed and not yet           *)
(* discarded, named after the call that pushed it.                         *)
(***************************************************************************)
\* self.board.cells.iter().any(|x| x.first().cloned().flatten().is_some())
is_filled(c) == \E x \in Cols : c[x][0].some

\* Game::new with the BombGenerator's first shuffle
GameNew(bag) ==
    [cells |-> BoardNew, generated_cells |-> 0, queue |-> <<>>,
     shuffled |-> bag, score |-> 0, bombs_removed |-> 0,
     bombs_limit |-> BombsLimit]

\* the limit alone
GameIsOverByLimit(g) == g.bombs_limit <= g.bombs_removed

\* a game that is never over
GameIsOverNever(g) == FALSE

\* Game::is_over
GameIsOver(g) == is_filled(g.cells) \/ g.bombs_limit <= g.bombs_removed

\* AnimationStream::push of a step that is over or not
QueuePush(queue, step, over) == IF ~over THEN Append(queue, step) ELSE queue

\* AnimatedBoard::feed: the step holds a SoundPlayer with the cue
\* (3, Sound::Feed) pending, so it is not over
AnimatedFeed(g, kinds) ==
    LET r == BoardFeed(g.cells, g.generated_cells, kinds)
    IN  [g EXCEPT !.cells = r.cells,
                  !.generated_cells = r.generated_cells,
                  !.queue = QueuePush(@, "feed", FALSE)]

\* AnimatedBoard::remove: nothing pushed when dists is empty; otherwise the
\* step holds the cue (0, Sound::Break) of the cell at dist 0, not yet sampled
AnimatedRemove(g, x, y) ==
    LET r == BoardRemove(g.cells, x, y)
    IN  [game |-> IF r.dists = <<>> THEN [g EXCEPT !.cells = r.cells]
                  ELSE [g EXCEPT !.cells = r.cells,
                                 !.queue = QueuePush(@, "remove", FALSE)],
         removed_cells |-> Len(r.dists),
         removed_bombs |->
             Cardinality({i \in 1 .. Len(r.dists) : r.dists[i][5] = "Bomb"})]

\* a reducer that queues the gravity step and leaves the cells in place
AnimatedGravityStepOnly(g) ==
    [g EXCEPT !.queue = QueuePush(@, "apply_gravity",
                                  \A x \in Cols, y \in Rows : ~g.cells[x][y].some)]

\* a reducer that leaves the cells where remove left them
AnimatedGravitySkipped(g) == g

\* AnimatedBoard::apply_gravity: the step has one CellAnimator of at least
\* one frame for each cell on the board, a cue for each fall distance and
\* no particles; it is over when the board is empty
AnimatedGravity(g) ==
    LET r == BoardApplyGravity(g.cells)
    IN  [g EXCEPT !.cells = r.cells,
                  !.queue = QueuePush(@, "apply_gravity",
                                      \A x \in Cols, y \in Rows : ~r.cells[x][y].some)]

\* BombGenerator::next: the pair popped and the bag left, after a fresh
\* shuffle if the bag was empty
Draws(bag) ==
    {[bombs |-> PopValue(b), shuffled |-> PopRest(b)] :
        b \in IF bag # <<>> THEN {bag} ELSE Shuffles(generate_x_pairs)}

(***************************************************************************)
(* AnimationChain (src/src/animation.rs): animation_1, then animation_2.   *)
(***************************************************************************)
\* the frames handed in one piece to whichever animation is current
ChainAdvanceAtOnce(c, frames) ==
    IF is_over(c.animation_1)
    THEN [c EXCEPT !.animation_2 = advance_frames(@, frames)]
    ELSE [c EXCEPT !.animation_1 = advance_frames(@, frames)]

\* for _ in 0..frames { if animation_1.is_over() { animation_2.advance_frames(1) }
\*                      else { animation_1.advance_frames(1) } }
RECURSIVE ChainAdvance(_, _)
ChainAdvance(c, frames) ==
    IF frames = 0 THEN c
    ELSE ChainAdvance(IF is_over(c.animation_1)
                      THEN [c EXCEPT !.animation_2 = advance_frames(@, 1)]
                      ELSE [c EXCEPT !.animation_1 = advance_frames(@, 1)],
                      frames - 1)

ChainFrame(c) ==
    IF is_over(c.animation_1)
    THEN current_frame(c.animation_2)
    ELSE current_frame(c.animation_1)

ChainIsOver(c) == is_over(c.animation_1) /\ is_over(c.animation_2)

(***************************************************************************)
(* CellAnimator and ParticleAnimator (src/src/game/animation.rs): the two  *)
(* have the same delay, duration and elapsed and the same code over them.  *)
(* current_frame interpolates each (from, to) pair at                      *)
(* relative_time = progress / duration, in f64.                            *)
(***************************************************************************)
CellAnimator(delay, duration) ==
    [kind |-> "CellAnimator", delay |-> delay, duration |-> duration,
     elapsed |-> 0]

ParticleAnimator(delay, duration) ==
    [kind |-> "ParticleAnimator", delay |-> delay, duration |-> duration,
     elapsed |-> 0]

\* self.elapsed += frames
CellAdvanceFrames(a, frames) == [a EXCEPT !.elapsed = @ + frames]

\* the difference, below 0 when b is the larger
plain_sub(a, b) == a - b

\* usize::saturating_sub
saturating_sub(a, b) == IF a >= b THEN a - b ELSE 0

\* self.elapsed.saturating_sub(self.delay).min(self.duration)
CellProgress(a) ==
    LET waited == saturating_sub(a.elapsed, a.delay)
    IN  IF waited <= a.duration THEN waited ELSE a.duration

\* self.duration + self.delay <= self.elapsed
CellIsOver(a) == a.duration + a.delay <= a.elapsed

(***************************************************************************)
(* NumberAnimator (src/src/game/animation.rs): current chases target.  The *)
(* values stay far below the width of usize (the score of a game is below  *)
(* 2^22), so the arithmetic is that of the integers.                       *)
(***************************************************************************)
\* NumberAnimator { target, current: 0 }
NumberNew(target) == [target |-> target, current |-> 0]

set_target(n, target) == [n EXCEPT !.target = target]

\* the step without the + 3 that rounds up
NumberStepTruncating(current, target) == (current * 3 + target) \div 4

\* self.current = (self.current * 3 + self.target + 3) / 4
NumberStep(current, target) == (current * 3 + target + 3) \div 4

\* for _ in 0..frames { step }
RECURSIVE NumberAdvance(_, _)
NumberAdvance(n, frames) ==
    IF frames = 0 THEN n
    ELSE NumberAdvance([n EXCEPT !.current = NumberStep(@, n.target)], frames - 1)

(***************************************************************************)
(* A step of the AnimatedBoard's queue (src/src/game/board.rs):            *)
(* Animator::new(visuals).zip(SoundPlayer::new(events))                    *)
(*     .zip(SingleAnimation::new(particles)).                              *)
(* visuals holds the CellAnimators, sounds the SoundPlayer and target the  *)
(* particle batch of the SingleAnimation.                                  *)
(***************************************************************************)
StepNew(visuals, events, particles) ==
    [visuals |-> visuals, sounds |-> SoundNew(events), target |-> particles]

\* a step that no frame advances
StepAdvanceNothing(s, frames) == s

\* AnimationZip::advance_frames: both sides; SingleAnimation's does nothing
StepAdvance(s, frames) ==
    [s EXCEPT !.visuals = [i \in 1 .. Len(@) |-> CellAdvanceFrames(@[i], frames)],
              !.sounds = SoundAdvance(@, frames)]

\* a step over as soon as its visuals are
StepIsOverByVisuals(s) ==
    \A i \in 1 .. Len(s.visuals) : CellIsOver(s.visuals[i])

\* AnimationZip::is_over of Animator::is_over, SoundPlayer::is_over and
\* SingleAnimation::is_over
StepIsOver(s) ==
    /\ \A i \in 1 .. Len(s.visuals) : CellIsOver(s.visuals[i])
    /\ s.sounds.events = <<>> /\ s.sounds.current = <<>>
    /\ s.target = <<>>

\* the step after current_frame: std::mem::take of SoundPlayer.current and
\* of SingleAnimation.target
StepTaken(s) == [s EXCEPT !.sounds.current = <<>>, !.target = <<>>]

\* AnimationStream::push of a step with its id
StepPush(queue, id, s) ==
    IF ~StepIsOver(s) THEN Append(queue, [id |-> id, step |-> s]) ELSE queue

\* AnimationStream::advance_frames over steps
RECURSIVE StepLoop(_, _)
StepLoop(queue, frames) ==
    IF frames = 0 \/ queue = <<>> THEN queue
    ELSE LET first == StepAdvance(Head(queue).step, 1)
         IN  StepLoop(IF StepIsOver(first)
                      THEN Tail(queue)
                      ELSE <<[Head(queue) EXCEPT !.step = first]>> \o Tail(queue),
                      frames - 1)

(***************************************************************************)
(* The online game: the server's BoardManager                              *)
(* (src/crates/server/src/game.rs) and the client's GameOnline             *)
(* (src/crates/client/src/game/online.rs).  A board is its cells and its   *)
(* generated_cells; a message on the wire is Remove {x, y} or Feed {row},  *)
(* row a vector of booleans.                                               *)
(***************************************************************************)
\* BoardManager::remove: board.remove(x, y).len(), then apply_gravity
ManagerRemove(b, x, y) ==
    LET r == BoardRemove(b.cells, x, y)
    IN  [board |-> [b EXCEPT !.cells = BoardApplyGravity(r.cells).cells],
         removed_cells |-> Len(r.dists)]

\* BoardManager::feed(false) with the pair next_double gave
ManagerFeed(b, bombs) ==
    LET r == BoardFeed(b.cells, b.generated_cells, RowOfBombs(bombs))
    IN  [board |-> [cells |-> r.cells, generated_cells |-> r.generated_cells],
         row |-> RowOfBombs(bombs)]

\* row.map(|x| x == CellType::Bomb)
ToWire(kinds) == [x \in Cols |-> kinds[x] = "Bomb"]

\* row.map(|x| if x { CellType::Bomb } else { CellType::Tile })
FromWire(bools) == [x \in Cols |-> IF bools[x] THEN "Bomb" ELSE "Tile"]

\* a client that removes and leaves the cells hanging
OnlineReduceNoGravity(b, msg) ==
    IF msg.type = "Remove"
    THEN [b EXCEPT !.cells = BoardRemove(b.cells, msg.x, msg.y).cells]
    ELSE LET r == BoardFeed(b.cells, b.generated_cells, FromWire(msg.row))
         IN  [cells |-> r.cells, generated_cells |-> r.generated_cells]

\* GameOnline::reduce on the action made of a ResponseMessage
OnlineReduce(b, msg) ==
    IF msg.type = "Remove"
    THEN [b EXCEPT !.cells =
             BoardApplyGravity(BoardRemove(b.cells, msg.x, msg.y).cells).cells]
    ELSE LET r == BoardFeed(b.cells, b.generated_cells, FromWire(msg.row))
         IN  [cells |-> r.cells, generated_cells |-> r.generated_cells]

(***************************************************************************)
(* The Matchmaker (src/crates/server/src/game.rs): waiting_players, the    *)
(* Games it started, each with its participants and its mailbox, and the   *)
(* mailbox of every Player.                                                *)
(***************************************************************************)
\* consecutive pairs that share a player: (1st, 2nd), (2nd, 3rd), ...
PairsOverlapping(order) ==
    [i \in 1 .. (IF Len(order) = 0 THEN 0 ELSE Len(order) - 1) |->
        <<order[i], order[i + 1]>>]

\* waiting_players.iter().scan(None, ..).flatten().collect(): the players in
\* the order the HashSet yields them, taken two by two
Pairs(order) ==
    [i \in 1 .. (Len(order) \div 2) |-> <<order[2 * i - 1], order[2 * i]>>]

\* for (left, right) in pairs { .. }
RECURSIVE RoundLoop(_, _)
RoundLoop(l, pairs) ==
    IF pairs = <<>> THEN l
    ELSE LET left == Head(pairs)[1]
             right == Head(pairs)[2]
             addr == Len(l.games) + 1
             joined == [l.inbox EXCEPT
                           ![left] = Append(@, [type |-> "JoinGame", game |-> addr])]
         IN  RoundLoop(
                [l EXCEPT
                    !.waiting_players = (@ \ {left}) \ {right},
                    !.inbox = [joined EXCEPT
                                  ![right] = Append(@, [type |-> "JoinGame",
                                                        game |-> addr])],
                    !.games = Append(@, [participants |-> {left, right},
                                         mailbox |-> <<left, right>>])],
                Tail(pairs))

(***************************************************************************)
(* The hard game, GameHard (src/src/game/hard.rs), over the AnimatedBoard  *)
(* of src/src/game/board.rs.  The source has levels 0 .. 999 in ten        *)
(* sections of 100; here a section has SectionLevels levels and the last   *)
(* section is MasterSection.  The grade is kept as the one bit the reducer *)
(* tests, master or not: GradeManager::add promotes to "master" only from  *)
(* a call with the last section, and whether it does depends on the score, *)
(* which decays with the wall clock.  sounds and grade_animation are read  *)
(* by the view only.                                                       *)
(***************************************************************************)
\* PARTICLE_COLORS: [&str; 7] with HEIGHT = 9; the valid indices are
\* 0 .. PARTICLE_COLORS - 1
PARTICLE_COLORS == HEIGHT - 2

\* level_limit: 999, the last level of the last section
LevelLimit == (MasterSection + 1) * SectionLevels - 1

\* SINGLE_FREQUENCY[section]: 9999 in the first section, 2 in the last two,
\* 10 - section between
SINGLE_FREQUENCY(section) ==
    IF section = 0 THEN 9999
    ELSE IF section >= MasterSection - 1 THEN 2
    ELSE 10 - section

\* GameHard::new; looked_up holds the indices the last Remove passed to
\* PARTICLE_COLORS, panicked whether the reducer panicked
HardNew ==
    [cells |-> BoardNew, generated_cells |-> 0, queue |-> <<>>,
     visible |-> "Visible", generated |-> SpreadNew, master |-> FALSE,
     until_single |-> 999, single_frequency |-> 999, section |-> 0,
     level |-> 0, level_limit |-> LevelLimit, is_started |-> FALSE,
     looked_up |-> {}, panicked |-> FALSE]

\* GameHard::is_over
HardIsOver(g) == is_filled(g.cells) \/ g.level >= g.level_limit

\* GameHard::grade
HardGrade(g) ==
    IF g.master /\ g.level >= g.level_limit /\ ~is_filled(g.cells)
    THEN "Grandmaster"
    ELSE IF g.master THEN "master" ELSE "below master"

\* let mut row = [Tile; WIDTH]; row[bomb] = Bomb
RowOfBomb(bombs) == [x \in Cols |-> IF x = bombs[1] THEN "Bomb" ELSE "Tile"]

\* GameHard::next_row, draw being what next_single (until_single = 0) or
\* next_double gave
HardNextRow(g, draw) ==
    LET level == IF /\ g.level % SectionLevels # SectionLevels - 1
                    /\ g.level # g.level_limit - 1
                    /\ HardGrade(g) # "master"
                 THEN g.level + 1
                 ELSE g.level
    IN  IF g.until_single = 0
        THEN [game |-> [g EXCEPT !.level = level,
                                 !.until_single = g.single_frequency - 1,
                                 !.generated = draw.generated],
              row |-> RowOfBomb(draw.ret)]
        ELSE [game |-> [g EXCEPT !.level = level,
                                 !.until_single = @ - 1,
                                 !.generated = draw.generated],
              row |-> RowOfBombs(draw.ret)]

\* the index HEIGHT - y - 1 of each Bomb on the board
ResetIndices(c) ==
    {HEIGHT - y - 1 :
        y \in {y \in Rows : \E x \in Cols : c[x][y].some /\ c[x][y].cell_type = "Bomb"}}

\* AnimatedBoard::reset: a particle and a CellAnimator for each cell, a
\* SoundPlayer without cues, then the cells cleared; the step is over when
\* the board had no cell
AnimatedReset(g) ==
    [g EXCEPT !.cells = BoardNew,
              !.queue = QueuePush(@, "reset",
                                  \A x \in Cols, y \in Rows : ~g.cells[x][y].some)]

\* the branch of GameAction::Remove taken when the Remove enters a section:
\* single_frequency and until_single set, and with the last section entered
\* as master the level set back, the board and the generator reset
HardEnterSection(g, section) ==
    LET entered == [g EXCEPT !.section = section,
                             !.single_frequency = SINGLE_FREQUENCY(section),
                             !.until_single = SINGLE_FREQUENCY(section)]
    IN  IF entered.section = MasterSection /\ HardGrade(entered) = "master"
        THEN [AnimatedReset([entered EXCEPT !.level = MasterSection * SectionLevels])
                 EXCEPT !.generated = SpreadNew,
                        !.visible = "Invisible",
                        !.looked_up = ResetIndices(entered.cells)]
        ELSE entered

(***************************************************************************)
(* The other objects, each as a state machine of its own.  A variable      *)
(* holds the object's fields and, where a property looks back, a record of *)
(* the calls made on it.  A specification constructs its object in its     *)
(* initial state and leaves the others as Constructed has them.            *)
(***************************************************************************)
Constructed ==
    [spread |-> [generated |-> SpreadNew, op |-> "new", ret |-> <<>>,
                 pre |-> SpreadNew, draws |-> 0],
     stream |-> [animations |-> <<>>, op |-> "new", arg |-> 0, pre |-> <<>>,
                 pushed |-> <<>>, frames |-> 0, late |-> FALSE,
                 sample |-> None],
     floating |-> [begin_at |-> 0, elapsed_frames |-> 0, animation |-> Double(2),
                   now |-> 0, ticks |-> 0, monotone |-> TRUE, advanced |-> 0,
                   calls |-> 0, wraps |-> 0, panicked |-> FALSE,
                   pre |-> [now |-> 0, elapsed_frames |-> 0,
                            animation |-> Double(2), calls |-> 0]],
     player |-> [frames_elapsed |-> 0, events |-> <<>>, current |-> <<>>,
                 given |-> <<>>, samples |-> <<>>, op |-> "new", calls |-> 0],
     animator |-> [animations |-> <<>>, members |-> <<>>, samples |-> <<>>,
                   total |-> 0, unit |-> TRUE, stopped |-> FALSE],
     endless |-> [animations |-> <<>>, op |-> "new", arg |-> 0, pre |-> <<>>],
     game |-> GameNew(generate_x_pairs),
     dispatched |-> [action |-> [name |-> "new"],
                     pre |-> GameNew(generate_x_pairs), count |-> 0],
     chain |-> [animation_1 |-> Double(0), animation_2 |-> Double(0),
                frames |-> 0, arg |-> 0],
     schedule |-> [begin_at |-> 0, elapsed_frames |-> 0, animation |-> <<>>,
                   now |-> 0, op |-> "new", calls |-> 0, pushed |-> FALSE,
                   pushed_at |-> 0, duration |-> 0, received |-> 0],
     timed |-> [animation |-> CellAnimator(0, 1), op |-> "new", arg |-> 0,
                pre |-> CellAnimator(0, 1), was_over |-> FALSE],
     number |-> [target |-> 0, current |-> 0, op |-> "new", arg |-> 0,
                 pre |-> NumberNew(0), targets |-> 0, frames |-> 0],
     steps |-> [queue |-> <<>>, given |-> <<>>, returned |-> <<>>,
                taken |-> <<>>, discarded |-> {}, burst |-> FALSE],
     online |-> [board |-> [cells |-> BoardNew, generated_cells |-> 0],
                 generated |-> SpreadNew, wire |-> <<>>,
                 client |-> [cells |-> BoardNew, generated_cells |-> 0],
                 handled |-> 0, read |-> 0, ignored |-> 0],
     hard |-> HardNew,
     lobby |-> [waiting_players |-> {}, games |-> <<>>,
                inbox |-> [who \in 1 .. MaxPlayers |-> <<>>], gone |-> {},
                rounds |-> 0,
                round |-> [before |-> {}, after |-> {}, pairs |-> <<>>,
                           games |-> 0, gone |-> {}]]]

IdleExcept(busy) ==
    /\ IF "spread" \in busy THEN TRUE ELSE spread = Constructed.spread
    /\ IF "stream" \in busy THEN TRUE ELSE stream = Constructed.stream
    /\ IF "floating" \in busy THEN TRUE ELSE floating = Constructed.floating
    /\ IF "player" \in busy THEN TRUE ELSE player = Constructed.player
    /\ IF "animator" \in busy THEN TRUE ELSE animator = Constructed.animator
    /\ IF "endless" \in busy THEN TRUE ELSE endless = Constructed.endless
    /\ IF "game" \in busy THEN TRUE
       ELSE game = Constructed.game /\ dispatched = Constructed.dispatched
    /\ IF "chain" \in busy THEN TRUE ELSE chain = Constructed.chain
    /\ IF "schedule" \in busy THEN TRUE ELSE schedule = Constructed.schedule
    /\ IF "timed" \in busy THEN TRUE ELSE timed = Constructed.timed
    /\ IF "number" \in busy THEN TRUE ELSE number = Constructed.number
    /\ IF "steps" \in busy THEN TRUE ELSE steps = Constructed.steps
    /\ IF "online" \in busy THEN TRUE ELSE online = Constructed.online
    /\ IF "hard" \in busy THEN TRUE ELSE hard = Constructed.hard
    /\ IF "lobby" \in busy THEN TRUE ELSE lobby = Constructed.lobby

(***************************************************************************)
(* The Board as a state machine: any sequence of calls on one Board.       *)
(***************************************************************************)
GenIdle ==
    /\ shuffled = <<>>
    /\ draws = <<>>
    /\ row = [x \in Cols |-> "Tile"]

InitBoard ==
    /\ cells = BoardNew
    /\ generated_cells = 0
    /\ op = [name |-> "new"]
    /\ ret = <<>>
    /\ pre = BoardNew
    /\ pre_generated = 0
    /\ minted = <<>>
    /\ calls = 0

Init == InitBoard /\ GenIdle /\ IdleExcept({})

\* board.remove(x, y); x = WIDTH and y = HEIGHT are the out-of-range coordinates
Remove(x, y) ==
    LET r == BoardRemove(cells, x, y)
    IN  /\ calls < MaxCalls
        /\ calls' = calls + 1
        /\ cells' = r.cells
        /\ ret' = r.dists
        /\ op' = [name |-> "remove", x |-> x, y |-> y]
        /\ pre' = cells
        /\ pre_generated' = generated_cells
        /\ UNCHANGED <<generated_cells, minted>>
        /\ UNCHANGED <<genVars, partVars>>

\* board.apply_gravity()
ApplyGravity ==
    LET r == BoardApplyGravity(cells)
    IN  /\ calls < MaxCalls
        /\ calls' = calls + 1
        /\ cells' = r.cells
        /\ ret' = r.fall_distance
        /\ op' = [name |-> "apply_gravity"]
        /\ pre' = cells
        /\ pre_generated' = generated_cells
        /\ UNCHANGED <<generated_cells, minted>>
        /\ UNCHANGED <<genVars, partVars>>

\* board.feed(&kinds)
Feed(kinds) ==
    LET r == BoardFeed(cells, generated_cells, kinds)
    IN  /\ calls < MaxCalls
        /\ calls' = calls + 1
        /\ cells' = r.cells
        /\ generated_cells' = r.generated_cells
        /\ ret' = r.row
        /\ op' = [name |-> "feed", row |-> kinds]
        /\ pre' = cells
        /\ pre_generated' = generated_cells
        /\ minted' = minted \o [i \in 1 .. WIDTH |-> r.row[i - 1].id]
        /\ UNCHANGED <<genVars, partVars>>

Next ==
    \/ \E x \in 0 .. WIDTH, y \in 0 .. HEIGHT : Remove(x, y)
    \/ ApplyGravity
    \/ \E kinds \in [Cols -> CellType] : Feed(kinds)

Spec == Init /\ [][Next]_vars

(***************************************************************************)
(* The BombGenerator as a state machine: BombGenerator::new shuffles once, *)
(* then Game::next_row is called again and again.                          *)
(***************************************************************************)
InitGenerator ==
    /\ InitBoard
    /\ IdleExcept({})
    /\ shuffled \in Shuffles(generate_x_pairs)
    /\ draws = <<>>
    /\ row = [x \in Cols |-> "Tile"]

\* next_row with a bag that still holds a pair: next() pops it
NextRowPop ==
    /\ Len(draws) < MaxDraws
    /\ shuffled # <<>>
    /\ draws' = Append(draws, PopValue(shuffled))
    /\ row' = RowOfBombs(PopValue(shuffled))
    /\ shuffled' = PopRest(shuffled)
    /\ UNCHANGED <<boardVars, partVars>>

\* next_row with an empty bag: next() shuffles a fresh enumeration, calls
\* itself and pops from it
NextRowRefill ==
    /\ Len(draws) < MaxDraws
    /\ shuffled = <<>>
    /\ \E fresh \in Shuffles(generate_x_pairs) :
          /\ draws' = Append(draws, PopValue(fresh))
          /\ row' = RowOfBombs(PopValue(fresh))
          /\ shuffled' = PopRest(fresh)
    /\ UNCHANGED <<boardVars, partVars>>

NextGenerator == NextRowPop \/ NextRowRefill

SpecGenerator == InitGenerator /\ [][NextGenerator]_vars

(***************************************************************************)
(* SpreadBombGenerator: new, then any sequence of next_single, next_double *)
(* and reset; gen_range may return any number of its range.                *)
(***************************************************************************)
InitSpread ==
    /\ InitBoard /\ GenIdle /\ IdleExcept({"spread"})
    /\ spread = Constructed.spread

SpreadSingle ==
    /\ spread.draws < MaxSpreadDraws
    /\ \E r \in 0 .. SumTo(possibility(spread.generated), WIDTH - 1) - 1 :
          LET n == next_single(spread.generated, r)
          IN  spread' = [generated |-> n.generated, op |-> "next_single",
                         ret |-> n.ret, pre |-> spread.generated,
                         draws |-> spread.draws + 1]
    /\ UNCHANGED <<boardVars, genVars, lastVars, moreVars, stream, floating,
                   player, animator, endless, game, dispatched>>

SpreadDouble ==
    /\ spread.draws < MaxSpreadDraws
    /\ LET weights == possibility(spread.generated)
           sum == SumTo(weights, WIDTH - 1)
       IN  \E r1 \in 0 .. sum - 1 :
              \E r2 \in 0 .. sum - weights[Pick(weights, r1)] - 1 :
                 LET n == next_double(spread.generated, r1, r2)
                 IN  spread' = [generated |-> n.generated, op |-> "next_double",
                                ret |-> n.ret, pre |-> spread.generated,
                                draws |-> spread.draws + 1]
    /\ UNCHANGED <<boardVars, genVars, lastVars, moreVars, stream, floating,
                   player, animator, endless, game, dispatched>>

SpreadReset ==
    /\ spread' = [spread EXCEPT !.generated = SpreadNew, !.op = "reset",
                                !.ret = <<>>, !.pre = spread.generated]
    /\ UNCHANGED <<boardVars, genVars, lastVars, moreVars, stream, floating,
                   player, animator, endless, game, dispatched>>

NextSpread == SpreadSingle \/ SpreadDouble \/ SpreadReset

SpecSpread == InitSpread /\ [][NextSpread]_vars

(***************************************************************************)
(* AnimationStream: new, then any sequence of push and advance_frames,     *)
(* each followed by current_frame.  pushed lists the animations the queue  *)
(* accepted, in push order; frames counts the frames passed in all; late   *)
(* tells that the queue accepted an animation after it was passed frames;  *)
(* sample is what current_frame returned last.                             *)
(***************************************************************************)
\* the animations a caller may hand over
Animations == {ConstantAnimation(2)} \cup {Double(d) : d \in 0 .. MaxDuration}

InitStream ==
    /\ InitBoard /\ GenIdle /\ IdleExcept({"stream"})
    /\ stream = Constructed.stream

StreamPushed(a) ==
    LET animations == StreamPush(stream.animations, a)
        accepted == Len(animations) > Len(stream.animations)
    IN  /\ Len(stream.animations) < MaxQueue
        /\ Len(stream.pushed) < MaxPushes
        /\ stream' = [animations |-> animations,
                      op |-> "push", arg |-> a, pre |-> stream.animations,
                      pushed |-> IF accepted THEN Append(stream.pushed, a)
                                 ELSE stream.pushed,
                      frames |-> stream.frames,
                      late |-> stream.late \/ (accepted /\ stream.frames > 0),
                      sample |-> StreamFrame(animations)]
    /\ UNCHANGED <<boardVars, genVars, lastVars, moreVars, spread, floating,
                   player, animator, endless, game, dispatched>>

StreamAdvanced(frames) ==
    /\ stream.frames + frames <= MaxStreamFrames
    /\ stream' = [animations |-> StreamAdvance(stream.animations, frames),
                  op |-> "advance_frames", arg |-> frames,
                  pre |-> stream.animations,
                  pushed |-> stream.pushed,
                  frames |-> stream.frames + frames,
                  late |-> stream.late,
                  sample |-> StreamFrame(StreamAdvance(stream.animations, frames))]
    /\ UNCHANGED <<boardVars, genVars, lastVars, moreVars, spread, floating,
                   player, animator, endless, game, dispatched>>

NextStream ==
    \/ \E a \in Animations : StreamPushed(a)
    \/ \E frames \in 0 .. MaxFrames : StreamAdvanced(frames)

SpecStream == InitStream /\ [][NextStream]_vars

(***************************************************************************)
(* FloatAnimator: new reads the clock, then animate is called with any     *)
(* readings of the clock.  When frames < elapsed_frames the subtraction    *)
(* frames - self.elapsed_frames overflows usize: a build with overflow     *)
(* checks panics, a build without them wraps, and the wrapped delta,       *)
(* added to the usize counter of the schedule, wraps that counter to       *)
(* frames.  wraps counts the wrapped deltas passed to the schedule.        *)
(***************************************************************************)
\* the clock readings, in milliseconds
Instants == {0, 16, 17, 2050, 2051}

InitFloat ==
    /\ InitBoard /\ GenIdle /\ IdleExcept({"floating"})
    /\ \E t \in Instants :
          floating = [Constructed.floating EXCEPT
                         !.begin_at = FloatNew(t, Double(2)).begin_at,
                         !.elapsed_frames = FloatNew(t, Double(2)).elapsed_frames,
                         !.animation = FloatNew(t, Double(2)).animation,
                         !.now = t,
                         !.pre = [@ EXCEPT !.now = t]]

FloatTick(t) ==
    LET frames == Frames(t - floating.begin_at)
        frame_delta == frames - floating.elapsed_frames
        read == [floating EXCEPT
                    !.now = t,
                    !.ticks = @ + 1,
                    !.monotone = @ /\ floating.now <= t,
                    !.pre = [now |-> floating.now,
                             elapsed_frames |-> floating.elapsed_frames,
                             animation |-> floating.animation,
                             calls |-> floating.calls]]
        stepped == [read EXCEPT
                        !.elapsed_frames = Stored(@, frames),
                        !.animation = advance_frames(@, frame_delta),
                        !.advanced = @ + frame_delta,
                        !.calls = @ + 1]
    IN  /\ floating.ticks < MaxTicks
        /\ ~floating.panicked
        /\ \/ /\ frame_delta > 0
              /\ floating' = stepped
           \/ /\ frame_delta = 0
              /\ floating' = [read EXCEPT !.elapsed_frames = Stored(@, frames)]
           \/ /\ frame_delta < 0
              /\ floating' = [read EXCEPT !.panicked = TRUE]
           \/ /\ frame_delta < 0
              /\ floating' = [stepped EXCEPT !.wraps = @ + 1]
        /\ UNCHANGED <<boardVars, genVars, lastVars, moreVars, spread, stream,
                       player, animator, endless, game, dispatched>>

NextFloat == \E t \in Instants : FloatTick(t)

SpecFloat == InitFloat /\ [][NextFloat]_vars

(***************************************************************************)
(* SoundPlayer: new with any cues, then any interleaving of advance_frames *)
(* and current_frame.  A cue is <<offset, i>>, i its place in the vector   *)
(* given to new; samples lists what each current_frame call returned and   *)
(* the frames elapsed at the call.                                         *)
(***************************************************************************)
Cues ==
    UNION {{[i \in 1 .. n |-> <<offset[i], i>>] : offset \in [1 .. n -> 0 .. MaxOffset]} :
              n \in 0 .. MaxCues}

InitSound ==
    /\ InitBoard /\ GenIdle /\ IdleExcept({"player"})
    /\ \E events \in Cues :
          player = [Constructed.player EXCEPT
                       !.frames_elapsed = SoundNew(events).frames_elapsed,
                       !.events = SoundNew(events).events,
                       !.current = SoundNew(events).current,
                       !.given = events]

SoundAdvanced(frames) ==
    /\ player.calls < MaxSoundCalls
    /\ player' = [SoundAdvance(player, frames) EXCEPT
                     !.op = "advance_frames", !.calls = @ + 1]
    /\ UNCHANGED <<boardVars, genVars, lastVars, moreVars, spread, stream,
                   floating, animator, endless, game, dispatched>>

\* current_frame: std::mem::take(self.current.borrow_mut().as_mut())
SoundSampled ==
    /\ player.calls < MaxSoundCalls
    /\ player' = [player EXCEPT
                     !.current = <<>>,
                     !.samples = Append(@, [frame |-> player.current,
                                            at |-> player.frames_elapsed]),
                     !.op = "current_frame",
                     !.calls = @ + 1]
    /\ UNCHANGED <<boardVars, genVars, lastVars, moreVars, spread, stream,
                   floating, animator, endless, game, dispatched>>

NextSound ==
    \/ \E frames \in 0 .. MaxFrames : SoundAdvanced(frames)
    \/ SoundSampled

SpecSound == InitSound /\ [][NextSound]_vars

(***************************************************************************)
(* Animator: new with any members, then the loop of test_animator:         *)
(* sample, advance, stop when over.  The test advances by 1 frame; the     *)
(* model also advances by more, and unit tells that every advance so far   *)
(* was by 1.                                                               *)
(***************************************************************************)
Members == UNION {[1 .. n -> Animations] : n \in 0 .. MaxMembers}

InitAnimator ==
    /\ InitBoard /\ GenIdle /\ IdleExcept({"animator"})
    /\ \E members \in Members :
          animator = [Constructed.animator EXCEPT
                         !.animations = members, !.members = members]

AnimatorIterate(frames) ==
    /\ ~animator.stopped
    /\ animator' =
          [animator EXCEPT
              !.samples = Append(@, [frame |-> AnimatorFrame(animator.animations),
                                     at |-> animator.total]),
              !.animations = AnimatorAdvance(@, frames),
              !.total = @ + frames,
              !.unit = @ /\ frames = 1,
              !.stopped = AnimatorIsOver(AnimatorAdvance(animator.animations, frames))]
    /\ UNCHANGED <<boardVars, genVars, lastVars, moreVars, spread, stream,
                   floating, player, endless, game, dispatched>>

NextAnimator == \E frames \in 1 .. MaxFrames : AnimatorIterate(frames)

SpecAnimator == InitAnimator /\ [][NextAnimator]_vars

(***************************************************************************)
(* EndlessAnimator: new with any members, then any sequence of push and    *)
(* advance_frames.                                                         *)
(***************************************************************************)
InitEndless ==
    /\ InitBoard /\ GenIdle /\ IdleExcept({"endless"})
    /\ \E members \in Members :
          endless = [Constructed.endless EXCEPT !.animations = EndlessNew(members)]

EndlessPushed(a) ==
    /\ Len(endless.animations) < MaxPool
    /\ endless' = [animations |-> EndlessPush(endless.animations, a),
                   op |-> "push", arg |-> a, pre |-> endless.animations]
    /\ UNCHANGED <<boardVars, genVars, lastVars, moreVars, spread, stream,
                   floating, player, animator, game, dispatched>>

EndlessAdvanced(frames) ==
    /\ endless' = [animations |-> EndlessAdvance(endless.animations, frames),
                   op |-> "advance_frames", arg |-> frames,
                   pre |-> endless.animations]
    /\ UNCHANGED <<boardVars, genVars, lastVars, moreVars, spread, stream,
                   floating, player, animator, game, dispatched>>

NextEndless ==
    \/ \E a \in Animations : EndlessPushed(a)
    \/ \E frames \in 0 .. MaxFrames : EndlessAdvanced(frames)

SpecEndless == InitEndless /\ [][NextEndless]_vars

(***************************************************************************)
(* The normal Game under its reducer: use_reducer(Game::new), then any     *)
(* sequence of the actions Remove, Feed, Animate and Retry.                *)
(***************************************************************************)
InitGame ==
    /\ InitBoard /\ GenIdle /\ IdleExcept({"game"})
    /\ \E bag \in Shuffles(generate_x_pairs) :
          /\ game = GameNew(bag)
          /\ dispatched = [action |-> [name |-> "new"], pre |-> GameNew(bag),
                           count |-> 0]

Dispatch(action) ==
    /\ dispatched.count < MaxDispatches
    /\ dispatched' = [action |-> action, pre |-> game,
                      count |-> dispatched.count + 1]
    /\ UNCHANGED <<boardVars, genVars, lastVars, moreVars, spread, stream,
                   floating, player, animator, endless>>

\* GameAction::Remove(x, y)
GameRemove(x, y) ==
    /\ Dispatch([name |-> "Remove", x |-> x, y |-> y])
    /\ IF GameIsOver(game)
       THEN game' = game
       ELSE LET r == AnimatedRemove(game, x, y)
                scored == [r.game EXCEPT
                              !.score = @ + ((r.removed_cells + 1) * r.removed_cells) \div 2,
                              !.bombs_removed = @ + r.removed_bombs]
            IN  IF r.removed_cells > 0
                THEN \E d \in Draws(game.shuffled) :
                        game' = AnimatedFeed(
                                   [AnimatedGravity(scored) EXCEPT !.shuffled = d.shuffled],
                                   RowOfBombs(d.bombs))
                ELSE game' = r.game

\* GameAction::Feed
GameFeed ==
    /\ Dispatch([name |-> "Feed"])
    /\ \E d \in Draws(game.shuffled) :
          game' = AnimatedFeed([game EXCEPT !.shuffled = d.shuffled],
                               RowOfBombs(d.bombs))

\* GameAction::Animate: the tick of board.animator advances the queue by
\* the frames the clock gives; the steps that end in them leave its head
GameAnimate ==
    /\ Dispatch([name |-> "Animate"])
    /\ \E k \in 0 .. Len(game.queue) :
          game' = [game EXCEPT !.queue = SubSeq(@, k + 1, Len(@))]

\* GameAction::Retry
GameRetry ==
    /\ Dispatch([name |-> "Retry"])
    /\ \E bag \in Shuffles(generate_x_pairs) :
          \E d \in Draws(bag) :
             game' = AnimatedFeed([GameNew(bag) EXCEPT !.shuffled = d.shuffled],
                                  RowOfBombs(d.bombs))

NextGame ==
    \/ \E x \in Cols, y \in Rows : GameRemove(x, y)
    \/ GameFeed
    \/ GameAnimate
    \/ GameRetry

SpecGame == InitGame /\ [][NextGame]_vars

(***************************************************************************)
(* The normal Game as its component drives it                              *)
(* (src/crates/client/src/components/game.rs): one Feed dispatched on      *)
(* mount, then Animate from the frame loop, Remove from the pointer and    *)
(* Retry from the button, in any order.                                    *)
(***************************************************************************)
\* use_effect_with_deps(.., ()): game.dispatch(GameAction::Feed), once
RunFirstFeed == dispatched.count = 0 /\ GameFeed

\* onmousedown, ontouchstart
RunRemove(x, y) == dispatched.count > 0 /\ GameRemove(x, y)

\* raf_loop
RunAnimate == dispatched.count > 0 /\ GameAnimate

\* onclick of the Retry button
RunRetry == dispatched.count > 0 /\ GameRetry

NextRun ==
    \/ RunFirstFeed
    \/ \E x \in Cols, y \in Rows : RunRemove(x, y)
    \/ RunAnimate
    \/ RunRetry

SpecRun == InitGame /\ [][NextRun]_vars

(***************************************************************************)
(* AnimationChain: two Doubles chained, then any sequence of               *)
(* advance_frames calls.  frames counts the frames passed in all.          *)
(***************************************************************************)
InitChain ==
    /\ InitBoard /\ GenIdle /\ IdleExcept({"chain"})
    /\ \E d1 \in 0 .. MaxDuration, d2 \in 0 .. MaxDuration :
          chain = [animation_1 |-> Double(d1), animation_2 |-> Double(d2),
                   frames |-> 0, arg |-> 0]

ChainAdvanced(frames) ==
    /\ chain.frames + frames <= MaxChainFrames
    /\ chain' = [ChainAdvance(chain, frames) EXCEPT
                    !.frames = @ + frames, !.arg = frames]
    /\ UNCHANGED <<boardVars, genVars, lastVars, combVars, schedule, timed,
                   number>>

NextChain == \E frames \in 0 .. MaxFrames : ChainAdvanced(frames)

SpecChain == InitChain /\ [][NextChain]_vars

(***************************************************************************)
(* The running schedule of AnimatedBoard (src/src/game/board.rs): animator *)
(* is a FloatAnimator over an AnimationStream, made in AnimatedBoard::new; *)
(* animate ticks it and remove, apply_gravity and feed push a step onto    *)
(* its queue, at whatever instant the action arrives.  The clock readings  *)
(* do not decrease here.  A step is modelled by a Double of its duration.  *)
(* pushed_at and duration are the instant and the duration of the step     *)
(* pushed last, received the frames it has been advanced by.               *)
(***************************************************************************)
\* the clock readings, in milliseconds: 0, 1, 2 and 3 frames after 0
ScheduleInstants == {0, 17, 34, 50}

InitSchedule ==
    /\ InitBoard /\ GenIdle /\ IdleExcept({"schedule"})
    /\ \E t \in ScheduleInstants :
          schedule = [Constructed.schedule EXCEPT
                         !.begin_at = FloatNew(t, <<>>).begin_at,
                         !.elapsed_frames = FloatNew(t, <<>>).elapsed_frames,
                         !.animation = FloatNew(t, <<>>).animation,
                         !.now = t]

\* FloatAnimator::animate on the queue, the clock reading t
ScheduleTick(t) ==
    LET frames == Frames(t - schedule.begin_at)
        frame_delta == frames - schedule.elapsed_frames
        animation == IF frame_delta > 0
                     THEN StreamAdvance(schedule.animation, frame_delta)
                     ELSE schedule.animation
    IN  /\ schedule.calls < MaxScheduleCalls
        /\ schedule.now <= t
        /\ schedule' = [schedule EXCEPT
                           !.elapsed_frames = Stored(@, frames),
                           !.animation = animation,
                           !.now = t,
                           !.op = "animate",
                           !.calls = @ + 1,
                           !.received = IF ~schedule.pushed THEN 0
                                        ELSE IF animation = <<>>
                                             THEN schedule.duration
                                             ELSE Head(animation).elapsed]
        /\ UNCHANGED <<boardVars, genVars, lastVars, combVars, chain, timed,
                       number>>

\* animator.borrow_mut().animation.push(step) while the queue is empty, the
\* clock reading t
SchedulePush(t, a) ==
    /\ schedule.calls < MaxScheduleCalls
    /\ schedule.now <= t
    /\ schedule.animation = <<>>
    /\ ~is_over(a)
    /\ schedule' = [schedule EXCEPT
                       !.animation = StreamPush(@, a),
                       !.now = t,
                       !.op = "push",
                       !.calls = @ + 1,
                       !.pushed = TRUE,
                       !.pushed_at = t,
                       !.duration = a.duration,
                       !.received = 0]
    /\ UNCHANGED <<boardVars, genVars, lastVars, combVars, chain, timed,
                   number>>

NextSchedule ==
    \/ \E t \in ScheduleInstants : ScheduleTick(t)
    \/ \E t \in ScheduleInstants, d \in 1 .. MaxDuration : SchedulePush(t, Double(d))

SpecSchedule == InitSchedule /\ [][NextSchedule]_vars

(***************************************************************************)
(* CellAnimator and ParticleAnimator: new with the delays and durations of *)
(* the call sites' kind (a delay of 0 or more, a duration of 1 or more),   *)
(* then any sequence of advance_frames calls.  was_over tells that is_over *)
(* was true before the last call.                                          *)
(***************************************************************************)
InitTimed ==
    /\ InitBoard /\ GenIdle /\ IdleExcept({"timed"})
    /\ \E delay \in 0 .. MaxDelay, duration \in 1 .. MaxDuration :
          \E a \in {CellAnimator(delay, duration), ParticleAnimator(delay, duration)} :
             timed = [animation |-> a, op |-> "new", arg |-> 0, pre |-> a,
                      was_over |-> FALSE]

TimedAdvanced(frames) ==
    /\ timed.animation.elapsed + frames <= MaxTimedFrames
    /\ timed' = [animation |-> CellAdvanceFrames(timed.animation, frames),
                 op |-> "advance_frames", arg |-> frames,
                 pre |-> timed.animation,
                 was_over |-> timed.was_over \/ CellIsOver(timed.animation)]
    /\ UNCHANGED <<boardVars, genVars, lastVars, combVars, chain, schedule,
                   number>>

NextTimed == \E frames \in 0 .. MaxFrames : TimedAdvanced(frames)

SpecTimed == InitTimed /\ [][NextTimed]_vars

(***************************************************************************)
(* NumberAnimator: new, then any sequence of set_target and advance_frames *)
(* calls.  pre holds target and current as the last call found them.       *)
(***************************************************************************)
InitNumber ==
    /\ InitBoard /\ GenIdle /\ IdleExcept({"number"})
    /\ \E target \in 0 .. MaxTarget :
          number = [target |-> NumberNew(target).target,
                    current |-> NumberNew(target).current,
                    op |-> "new", arg |-> target, pre |-> NumberNew(target),
                    targets |-> 0, frames |-> 0]

NumberSetTarget(target) ==
    /\ number.targets < MaxTargets
    /\ number' = [number EXCEPT
                     !.target = set_target(number, target).target,
                     !.op = "set_target",
                     !.arg = target,
                     !.pre = [target |-> number.target, current |-> number.current],
                     !.targets = @ + 1]
    /\ UNCHANGED <<boardVars, genVars, lastVars, combVars, chain, schedule,
                   timed>>

NumberAdvanced(frames) ==
    /\ number.frames + frames <= MaxNumberFrames
    /\ number' = [number EXCEPT
                     !.current = NumberAdvance(number, frames).current,
                     !.op = "advance_frames",
                     !.arg = frames,
                     !.pre = [target |-> number.target, current |-> number.current],
                     !.frames = @ + frames]
    /\ UNCHANGED <<boardVars, genVars, lastVars, combVars, chain, schedule,
                   timed>>

NextNumber ==
    \/ \E target \in 0 .. MaxTarget : NumberSetTarget(target)
    \/ \E frames \in 1 .. MaxFrames : NumberAdvanced(frames)

SpecNumber == InitNumber /\ [][NextNumber]_vars

(***************************************************************************)
(* The AnimatedBoard's queue: steps pushed by feed, remove, apply_gravity  *)
(* and reset, ticks of animate() that advance it by a positive number of   *)
(* frames, and samples by frame().  Steps are numbered as pushed; given    *)
(* lists what each was built from, returned and taken what the samples     *)
(* got out of it, discarded the steps that left the queue, and burst       *)
(* tells that a tick of several frames discarded the head and went on to   *)
(* the step behind it.  At most MaxUnsampled frames go by while the head   *)
(* has something for frame() to take.                                      *)
(***************************************************************************)
Visuals == {<<>>, <<CellAnimator(0, 1)>>, <<CellAnimator(MaxDelay, MaxDuration)>>}

\* the cue vectors in the order of their offsets
StepCues ==
    {events \in Cues :
        \A i \in 1 .. Len(events) - 1 : events[i][1] <= events[i + 1][1]}

Batches == {<<>>, <<"particle">>}

InitSteps ==
    /\ InitBoard /\ GenIdle /\ IdleExcept({"steps"})
    /\ steps = Constructed.steps

\* self.animator.borrow_mut().animation.push(..zip(..).zip(..))
StepsPush(visuals, events, particles) ==
    /\ Len(steps.given) < MaxSteps
    /\ steps' = [steps EXCEPT
                    !.queue = StepPush(@, Len(steps.given) + 1,
                                       StepNew(visuals, events, particles)),
                    !.given = Append(@, [events |-> events, particles |-> particles]),
                    !.returned = Append(@, <<>>),
                    !.taken = Append(@, <<>>)]
    /\ UNCHANGED <<boardVars, genVars, combVars, moreVars, online, hard, lobby>>

\* AnimatedBoard::animate when the clock gives frame_delta > 0
StepsTick(frame_delta) ==
    /\ steps.queue # <<>> =>
          \/ StepTaken(Head(steps.queue).step) = Head(steps.queue).step
          \/ Head(steps.queue).step.sounds.frames_elapsed + frame_delta
                <= MaxUnsampled
    /\ LET left == StepLoop(steps.queue, frame_delta)
       IN  steps' = [steps EXCEPT
                        !.queue = left,
                        !.discarded = @ \cup
                            ({steps.queue[i].id : i \in 1 .. Len(steps.queue)}
                             \ {left[i].id : i \in 1 .. Len(left)}),
                        !.burst = @ \/ (frame_delta > 1 /\ left # <<>>
                                         /\ left[1].id # steps.queue[1].id)]
    /\ UNCHANGED <<boardVars, genVars, combVars, moreVars, online, hard, lobby>>

\* AnimatedBoard::frame while a step is queued
StepsSample ==
    /\ steps.queue # <<>>
    /\ LET first == Head(steps.queue)
       IN  steps' = [steps EXCEPT
                        !.queue = <<[first EXCEPT !.step = StepTaken(@)]>>
                                  \o Tail(steps.queue),
                        !.returned[first.id] = @ \o first.step.sounds.current,
                        !.taken[first.id] = @ \o first.step.target]
    /\ UNCHANGED <<boardVars, genVars, combVars, moreVars, online, hard, lobby>>

NextSteps ==
    \/ \E visuals \in Visuals, events \in StepCues, particles \in Batches :
          StepsPush(visuals, events, particles)
    \/ \E frame_delta \in 1 .. MaxFrames : StepsTick(frame_delta)
    \/ StepsSample

SpecSteps == InitSteps /\ [][NextSteps]_vars

\* the frame loop keeps ticking, and every render samples
SpecStepsFair ==
    /\ SpecSteps
    /\ WF_vars(\E frame_delta \in 1 .. MaxFrames : StepsTick(frame_delta))
    /\ WF_vars(StepsSample)

(***************************************************************************)
(* One participant of an online game: the server's Game handles the Feed   *)
(* the Matchmaker sent and the Removes of the player, and answers on the   *)
(* player's socket; the client dispatches each message it reads to its     *)
(* reducer, in the order of the socket.  handled counts the messages the   *)
(* Game handled, ignored the Removes among them that destroyed nothing,    *)
(* read the messages the client dispatched.                                *)
(***************************************************************************)
\* gen_range(0..sum) lands in the share of one column of positive weight:
\* the last value of each share
Shares(weights) ==
    {SumTo(weights, x) - 1 : x \in {x \in Cols : weights[x] > 0}}

\* the pairs next_double can give, each with the counters after it
DoubleDraws(generated) ==
    LET weights == possibility(generated)
    IN  UNION {{next_double(generated, r1, r2) :
                   r2 \in Shares(Excluded(weights, Pick(weights, r1)))} :
                  r1 \in Shares(weights)}

InitOnline ==
    /\ InitBoard /\ GenIdle /\ IdleExcept({"online"})
    /\ online = Constructed.online

\* Handler<Remove> for Game
ServerRemove(x, y) ==
    /\ online.handled < MaxHandled
    /\ LET r == ManagerRemove(online.board, x, y)
       IN  IF r.removed_cells > 0
           THEN \E n \in DoubleDraws(online.generated) :
                   LET f == ManagerFeed(r.board, n.ret)
                   IN  online' = [online EXCEPT
                                     !.board = f.board,
                                     !.generated = n.generated,
                                     !.wire = @ \o <<[type |-> "Remove", x |-> x, y |-> y],
                                                     [type |-> "Feed", row |-> ToWire(f.row)]>>,
                                     !.handled = @ + 1]
           ELSE online' = [online EXCEPT !.board = r.board, !.handled = @ + 1,
                                         !.ignored = @ + 1]
    /\ UNCHANGED <<boardVars, genVars, combVars, moreVars, steps, hard, lobby>>

\* Handler<Feed> for Game
ServerFeed ==
    /\ online.handled < MaxHandled
    /\ \E n \in DoubleDraws(online.generated) :
          LET f == ManagerFeed(online.board, n.ret)
          IN  online' = [online EXCEPT
                            !.board = f.board,
                            !.generated = n.generated,
                            !.wire = Append(@, [type |-> "Feed", row |-> ToWire(f.row)]),
                            !.handled = @ + 1]
    /\ UNCHANGED <<boardVars, genVars, combVars, moreVars, steps, hard, lobby>>

\* the client reads the next message and dispatches it
ClientReceive ==
    /\ online.wire # <<>>
    /\ online' = [online EXCEPT
                     !.client = OnlineReduce(@, Head(online.wire)),
                     !.wire = Tail(@),
                     !.read = @ + 1]
    /\ UNCHANGED <<boardVars, genVars, combVars, moreVars, steps, hard, lobby>>

NextOnline ==
    \/ \E x \in Cols, y \in Rows : ServerRemove(x, y)
    \/ ServerFeed
    \/ ClientReceive

SpecOnline == InitOnline /\ [][NextOnline]_vars

(***************************************************************************)
(* The Matchmaker with MaxPlayers players: Join and Leave at any time, the *)
(* round of run_interval, and each Game handling the Feeds in its mailbox. *)
(* gone holds the players whose Leave was handled after their last Join;   *)
(* round tells of the last round: waiting_players before and after it, the *)
(* pairs it made, the games there were before it, and gone.                *)
(***************************************************************************)
Players == 1 .. MaxPlayers

\* the addresses of the Games MaxRounds rounds can start
Games == 1 .. MaxRounds * (MaxPlayers \div 2)

\* the orders in which a HashSet may yield its elements
Orders(S) ==
    {order \in [1 .. Cardinality(S) -> S] :
        \A i \in 1 .. Cardinality(S) : \A j \in 1 .. Cardinality(S) :
            i # j => order[i] # order[j]}

InitLobby ==
    /\ InitBoard /\ GenIdle /\ IdleExcept({"lobby"})
    /\ lobby = Constructed.lobby

\* Handler<Join> for Matchmaker
LobbyJoin(who) ==
    /\ lobby' = [lobby EXCEPT !.waiting_players = @ \cup {who},
                              !.gone = @ \ {who}]
    /\ UNCHANGED <<boardVars, genVars, combVars, moreVars, steps, online, hard>>

\* Handler<Leave> for Matchmaker
LobbyLeave(who) ==
    /\ lobby' = [lobby EXCEPT !.waiting_players = @ \ {who},
                              !.gone = @ \cup {who}]
    /\ UNCHANGED <<boardVars, genVars, combVars, moreVars, steps, online, hard>>

\* the closure given to ctx.run_interval
LobbyRound ==
    /\ lobby.rounds < MaxRounds
    /\ \E order \in Orders(lobby.waiting_players) :
          LET after == RoundLoop(lobby, Pairs(order))
          IN  lobby' = [after EXCEPT
                           !.rounds = @ + 1,
                           !.round = [before |-> lobby.waiting_players,
                                      after |-> after.waiting_players,
                                      pairs |-> Pairs(order),
                                      games |-> Len(lobby.games),
                                      gone |-> lobby.gone]]
    /\ UNCHANGED <<boardVars, genVars, combVars, moreVars, steps, online, hard>>

\* Handler<Feed> for Game: the row goes to the player if a participant
GameHandleFeed(addr) ==
    /\ addr <= Len(lobby.games)
    /\ lobby.games[addr].mailbox # <<>>
    /\ LET who == Head(lobby.games[addr].mailbox)
       IN  lobby' = [lobby EXCEPT
                        !.games[addr].mailbox = Tail(@),
                        !.inbox[who] =
                            IF who \in lobby.games[addr].participants
                            THEN Append(@, [type |-> "Feed", game |-> addr])
                            ELSE @]
    /\ UNCHANGED <<boardVars, genVars, combVars, moreVars, steps, online, hard>>

NextLobby ==
    \/ \E who \in Players : LobbyJoin(who)
    \/ \E who \in Players : LobbyLeave(who)
    \/ LobbyRound
    \/ \E addr \in Games : GameHandleFeed(addr)

SpecLobby == InitLobby /\ [][NextLobby]_vars

(***************************************************************************)
(* The hard game under its reducer as its component drives it              *)
(* (src/src/components/game_hard.rs): use_reducer(GameHard::new), then     *)
(* Animate from the frame loop, Remove from the pointer and Retry from the *)
(* button, in any order.  An index outside PARTICLE_COLORS panics, and the *)
(* panic ends the program.                                                 *)
(***************************************************************************)
\* the columns next_single can give, each with the counters after it
SingleDraws(generated) ==
    {next_single(generated, r) : r \in Shares(possibility(generated))}

\* the generator call of next_row
HardDraws(g) ==
    IF g.until_single = 0 THEN SingleDraws(g.generated)
    ELSE DoubleDraws(g.generated)

\* GradeManager::add: the grade stays "master" once reached and is reached
\* only in a call with section 9
GradeAdd(master, section) ==
    IF master THEN {TRUE}
    ELSE IF section = MasterSection THEN BOOLEAN
    ELSE {FALSE}

InitHard ==
    /\ InitBoard /\ GenIdle /\ IdleExcept({"hard"})
    /\ hard = HardNew

\* GameAction::Remove(x, y)
HardRemove(x, y) ==
    /\ ~hard.panicked
    /\ IF HardIsOver(hard)
       THEN hard' = hard
       ELSE \E r \in {AnimatedRemove(hard, x, y)} :
          IF r.removed_cells = 0
          THEN hard' = r.game
          ELSE \E levelled \in {[r.game EXCEPT !.level = @ + r.removed_bombs]} :
               \E section \in {IF levelled.level \div SectionLevels < MasterSection
                                THEN levelled.level \div SectionLevels
                                ELSE MasterSection} :
               \E master \in GradeAdd(hard.master, section) :
               \E graded \in {[levelled EXCEPT !.master = master]} :
                  IF /\ graded.section < section
                     /\ section = MasterSection
                     /\ HardGrade(graded) = "master"
                     /\ \E i \in ResetIndices(graded.cells) : i >= PARTICLE_COLORS
                  THEN hard' = [hard EXCEPT
                                   !.panicked = TRUE,
                                   !.looked_up = ResetIndices(graded.cells)]
                  ELSE \E fallen \in {AnimatedGravity(
                                          IF graded.section < section
                                          THEN HardEnterSection(graded, section)
                                          ELSE graded)} :
                       \E draw \in HardDraws(fallen) :
                       \E n \in {HardNextRow(fallen, draw)} :
                       \E fed \in {AnimatedFeed(n.game, n.row)} :
                          hard' = IF /\ HardIsOver(fed)
                                     /\ fed.visible = "Invisible"
                                  THEN [fed EXCEPT !.visible =
                                           "InvisibleWhileAnimation"]
                                  ELSE fed
    /\ UNCHANGED <<boardVars, genVars, combVars, moreVars, steps, online, lobby>>

\* GameAction::Animate: the tick of board.animator discards the steps that
\* ended; the first tick that finds the timer started feeds the first row
HardAnimate ==
    /\ ~hard.panicked
    /\ \E k \in 0 .. Len(hard.queue), started \in BOOLEAN :
          LET ticked == [hard EXCEPT !.queue = SubSeq(@, k + 1, Len(@))]
          IN  IF ~ticked.is_started /\ started
              THEN \E draw \in HardDraws(ticked) :
                      LET n == HardNextRow([ticked EXCEPT !.is_started = TRUE], draw)
                      IN  hard' = AnimatedFeed(n.game, n.row)
              ELSE hard' = ticked
    /\ UNCHANGED <<boardVars, genVars, combVars, moreVars, steps, online, lobby>>

\* GameAction::Retry
HardRetry ==
    /\ ~hard.panicked
    /\ hard' = HardNew
    /\ UNCHANGED <<boardVars, genVars, combVars, moreVars, steps, online, lobby>>

NextHard ==
    \/ \E x \in Cols, y \in Rows : HardRemove(x, y)
    \/ HardAnimate
    \/ HardRetry

SpecHard == InitHard /\ [][NextHard]_vars

(***************************************************************************)
(* Vocabulary of the properties.                                           *)
(***************************************************************************)
Slots == Cols \X Rows

At(c, p) == c[p[1]][p[2]]

Occupied(c) == {p \in Slots : At(c, p).some}

Ids(c) == {At(c, p).id : p \in Occupied(c)}

\* the slots of c that hold the cell with this id
PosOf(c, id) == {p \in Occupied(c) : At(c, p).id = id}

Abs(n) == IF n < 0 THEN -n ELSE n

\* q lies in the 8-neighbourhood of p
Near(p, q) == p # q /\ Abs(p[1] - q[1]) <= 1 /\ Abs(p[2] - q[2]) <= 1

Min(S) == CHOOSE m \in S : \A n \in S : m <= n

\* the least set of occupied slots that contains S and every occupied slot
\* in the 8-neighbourhood of one of its Bombs
RECURSIVE Closure(_, _)
Closure(c, S) ==
    LET T == S \cup {q \in Occupied(c) :
                       \E p \in S : At(c, p).cell_type = "Bomb" /\ Near(p, q)}
    IN  IF T = S THEN S ELSE Closure(c, T)

\* the occupied slots of a column, top to bottom
ColumnCells(column) ==
    SelectSeq([i \in 1 .. HEIGHT |-> column[i - 1]], LAMBDA c : c.some)

\* no empty slot lies at a higher row index than an occupied slot
Settled(c) ==
    \A x \in Cols : \A y1 \in Rows : \A y2 \in Rows :
        (y1 < y2 /\ c[x][y1].some) => c[x][y2].some

RemovedSomething ==
    op.name = "remove" /\ <<op.x, op.y>> \in Occupied(pre)

\* the slot the i-th entry of a remove result names
RetSlot(i) == <<ret[i][3], ret[i][4]>>

(***************************************************************************)
(* C1: remove(x, y) on an occupied slot empties exactly the closure of the *)
(* target under bomb propagation (the target, and every occupied slot in   *)
(* the clipped 8-neighbourhood of a removed Bomb); every other slot keeps  *)
(* its content, and a removed Tile propagates nothing.                     *)
(***************************************************************************)
C1_RemoveIsBombClosure ==
    RemovedSomething =>
        LET gone == Closure(pre, {<<op.x, op.y>>})
        IN  \A p \in Slots :
                At(cells, p) = IF p \in gone THEN None ELSE At(pre, p)

\* a chain that reached distance 2, passed a Tile, and left cells behind
C1_Witness ==
    /\ RemovedSomething
    /\ \E i \in 1 .. Len(ret) : ret[i][2] = 2
    /\ \E i \in 1 .. Len(ret) : ret[i][5] = "Tile"
    /\ Occupied(cells) # {}

(***************************************************************************)
(* C2: the result of remove lists each destroyed cell exactly once, with   *)
(* the column, row and kind it had before, and its BFS layer: 0 for the    *)
(* target, else 1 + the least distance of a removed Bomb in its            *)
(* 8-neighbourhood; the entries come in non-decreasing distance order, the *)
(* target first.                                                           *)
(***************************************************************************)
C2_RemoveResultIsBfsLayers ==
    RemovedSomething =>
        LET n == Len(ret)
        IN  /\ n >= 1
            /\ RetSlot(1) = <<op.x, op.y>>
            /\ ret[1][2] = 0
            /\ \A i \in 1 .. n :
                  /\ RetSlot(i) \in Occupied(pre)
                  /\ ret[i][1] = At(pre, RetSlot(i)).id
                  /\ ret[i][5] = At(pre, RetSlot(i)).cell_type
            /\ {RetSlot(i) : i \in 1 .. n} = Occupied(pre) \ Occupied(cells)
            /\ \A i \in 1 .. n : \A j \in 1 .. n : i # j => RetSlot(i) # RetSlot(j)
            /\ \A i \in 2 .. n :
                  LET B == {j \in 1 .. n :
                              ret[j][5] = "Bomb" /\ Near(RetSlot(j), RetSlot(i))}
                  IN  /\ B # {}
                      /\ ret[i][2] = 1 + Min({ret[j][2] : j \in B})
            /\ \A i \in 1 .. n : \A j \in 1 .. n : i < j => ret[i][2] <= ret[j][2]

\* a cell at distance 2 that also has a Bomb of distance 2 beside it
C2_Witness ==
    /\ RemovedSomething
    /\ \E i \in 1 .. Len(ret) : \E j \in 1 .. Len(ret) :
          /\ ret[i][2] = 2
          /\ ret[j][2] = 2
          /\ ret[j][5] = "Bomb"
          /\ Near(RetSlot(i), RetSlot(j))

(***************************************************************************)
(* C3: remove(x, y) with no cell at the target (an empty slot, x >= WIDTH  *)
(* or y >= HEIGHT) returns an empty result and leaves every slot and the   *)
(* id counter unchanged.                                                   *)
(***************************************************************************)
C3_RemoveOfNothingIsNoOp ==
    (op.name = "remove" /\ <<op.x, op.y>> \notin Occupied(pre)) =>
        /\ ret = <<>>
        /\ cells = pre
        /\ generated_cells = pre_generated

\* an out-of-range column beside an occupied slot of the last column
C3_Witness ==
    /\ op.name = "remove"
    /\ op.x = WIDTH
    /\ op.y \in Rows
    /\ pre[WIDTH - 1][op.y].some
    /\ ret = <<>>

(***************************************************************************)
(* C4: after apply_gravity no column has an empty slot at a higher row     *)
(* index than an occupied slot, and the returned map holds exactly the ids *)
(* of the cells whose row changed, each with new_row - old_row (> 0).      *)
(***************************************************************************)
C4_GravitySettlesAndReportsFalls ==
    op.name = "apply_gravity" =>
        LET moved == {id \in Ids(pre) : PosOf(cells, id) # PosOf(pre, id)}
        IN  /\ Settled(cells)
            /\ DOMAIN ret = moved
            /\ \A id \in moved :
                  /\ ret[id] > 0
                  /\ \E p \in PosOf(pre, id) : \E q \in PosOf(cells, id) :
                        ret[id] = q[2] - p[2]

\* a cell fell two rows while a cell of another column stayed where it was
C4_Witness ==
    /\ op.name = "apply_gravity"
    /\ \E id \in DOMAIN ret : ret[id] = 2
    /\ \E p \in Occupied(pre) : p[2] = 0 /\ At(cells, p) = At(pre, p)

(***************************************************************************)
(* C5: from every board state, two apply_gravity calls in a row: the       *)
(* second returns an empty map and leaves the board as the first left it.  *)
(***************************************************************************)
C5_GravityTwiceIsNoOp ==
    LET first == BoardApplyGravity(cells)
        second == BoardApplyGravity(first.cells)
    IN  /\ second.fall_distance = EmptyMap
        /\ second.cells = first.cells

\* a first call that moved cells has just returned
C5_Witness ==
    /\ op.name = "apply_gravity"
    /\ Cardinality(DOMAIN ret) >= 2
    /\ cells # pre

(***************************************************************************)
(* C6: apply_gravity keeps in every column the same cells (id and kind) in *)
(* the same top-to-bottom order, and no cell moves to a lower row index.   *)
(***************************************************************************)
C6_GravityKeepsColumns ==
    op.name = "apply_gravity" =>
        \A x \in Cols :
            /\ ColumnCells(cells[x]) = ColumnCells(pre[x])
            /\ \A y \in Rows :
                  pre[x][y].some =>
                      \E y2 \in Rows : y2 >= y /\ cells[x][y2] = pre[x][y]

\* a column of two cells of different kinds, of which the upper one fell
C6_Witness ==
    /\ op.name = "apply_gravity"
    /\ \E x \in Cols :
          /\ Len(ColumnCells(pre[x])) = 2
          /\ ColumnCells(pre[x])[1].cell_type # ColumnCells(pre[x])[2].cell_type
          /\ pre[x][0].some
          /\ ~cells[x][0].some

(***************************************************************************)
(* C7: feed(row): in every column the content of row r (1 <= r < HEIGHT)   *)
(* moves to row r-1, what was at row 0 is dropped, row HEIGHT-1 holds a    *)
(* new cell of kind row[column]; the WIDTH new cells are returned in       *)
(* column order.                                                           *)
(***************************************************************************)
C7_FeedShiftsUp ==
    op.name = "feed" =>
        /\ DOMAIN ret = Cols
        /\ \A x \in Cols :
              /\ \A r \in 1 .. (HEIGHT - 1) : cells[x][r - 1] = pre[x][r]
              /\ pre[x][0].some => pre[x][0].id \notin Ids(cells)
              /\ cells[x][HEIGHT - 1] = ret[x]
              /\ ret[x].some
              /\ ret[x].cell_type = op.row[x]
              /\ ret[x].id \notin Ids(pre)

\* a feed that dropped the top of one column and found another's top empty
C7_Witness ==
    /\ op.name = "feed"
    /\ \E x \in Cols : pre[x][0].some
    /\ \E x \in Cols : ~pre[x][0].some /\ pre[x][1].some

(***************************************************************************)
(* C8: over any sequence of calls, every id feed mints is greater than     *)
(* every id minted before (within a call, ids increase by column), so no   *)
(* id is minted twice; and a cell on the board keeps its id and kind.      *)
(***************************************************************************)
C8_IdsIncreaseAndCellsKeepKind ==
    /\ \A i \in 1 .. Len(minted) : \A j \in 1 .. Len(minted) :
          i < j => minted[i] < minted[j]
    /\ \A id \in Ids(cells) : \E i \in 1 .. Len(minted) : minted[i] = id
    /\ op.name = "feed" =>
          \A x \in Cols : ret[x].id = minted[Len(minted) - WIDTH + 1 + x]
    /\ \A p \in Occupied(cells) : \A q \in Occupied(pre) :
          At(cells, p).id = At(pre, q).id => At(cells, p) = At(pre, q)

\* a second or later feed, on a board that has lost cells and kept some
C8_Witness ==
    /\ op.name = "feed"
    /\ Len(minted) >= 2 * WIDTH
    /\ Occupied(pre) # {}
    /\ Cardinality(Ids(cells)) < Len(minted) - 1

(***************************************************************************)
(* C9, as claimed: a cell disappears from the board only if the call was a *)
(* remove and its result lists the cell.                                   *)
(***************************************************************************)
C9_OnlyRemoveDestroys ==
    \A q \in Occupied(pre) :
        At(pre, q).id \notin Ids(cells) =>
            /\ op.name = "remove"
            /\ \E i \in 1 .. Len(ret) : ret[i][1] = At(pre, q).id

(***************************************************************************)
(* C9, amended: a cell disappears from the board only if a remove lists it *)
(* in its result, or if it stood in row 0 when feed was called.            *)
(***************************************************************************)
C9_OnlyRemoveOrFeedOfTopRowDestroys ==
    \A q \in Occupied(pre) :
        At(pre, q).id \notin Ids(cells) =>
            \/ /\ op.name = "remove"
               /\ \E i \in 1 .. Len(ret) : ret[i][1] = At(pre, q).id
            \/ /\ op.name = "feed"
               /\ q[2] = 0

\* a feed after which a cell of the board is gone
C9_Witness ==
    /\ op.name = "feed"
    /\ \E q \in Occupied(pre) : At(pre, q).id \notin Ids(cells)

(***************************************************************************)
(* C10: with C = WIDTH*(WIDTH-1)/2, the draws k*C+1 .. (k+1)*C hold every  *)
(* unordered pair of distinct columns exactly once; every draw is a pair   *)
(* of distinct in-range columns; an empty bag is refilled with a full      *)
(* enumeration before the next draw.                                       *)
(***************************************************************************)
CycleLength == (WIDTH * (WIDTH - 1)) \div 2

ColumnPairs == {S \in SUBSET Cols : Cardinality(S) = 2}

Unordered(pair) == {pair[1], pair[2]}

\* the draws of the cycle the last draw belongs to
LastWindow ==
    LET n == Len(draws)
        m == IF n > 0 /\ n % CycleLength = 0 THEN CycleLength ELSE n % CycleLength
    IN  SubSeq(draws, n - m + 1, n)

C10_EveryCycleHoldsEveryPairOnce ==
    /\ \A i \in 1 .. Len(draws) :
          /\ draws[i][1] \in Cols
          /\ draws[i][2] \in Cols
          /\ draws[i][1] # draws[i][2]
    /\ \A k \in 0 .. (Len(draws) \div CycleLength) :
          \A i \in 1 .. Len(draws) : \A j \in 1 .. Len(draws) :
              (/\ i < j
               /\ (i - 1) \div CycleLength = k
               /\ (j - 1) \div CycleLength = k)
              => Unordered(draws[i]) # Unordered(draws[j])
    /\ \A k \in 0 .. (Len(draws) \div CycleLength) :
          (k + 1) * CycleLength <= Len(draws) =>
              {Unordered(draws[i]) :
                  i \in (k * CycleLength + 1) .. ((k + 1) * CycleLength)}
              = ColumnPairs
    /\ Len(LastWindow) + Len(shuffled) = CycleLength
    /\ {Unordered(LastWindow[i]) : i \in 1 .. Len(LastWindow)}
          \cup {Unordered(shuffled[i]) : i \in 1 .. Len(shuffled)} = ColumnPairs

\* two full cycles drawn and the third begun from a refilled bag
C10_Witness ==
    /\ Len(draws) = 2 * CycleLength + 1
    /\ Len(shuffled) = CycleLength - 1
    /\ draws[CycleLength + 1] # draws[1]

Max(S) == CHOOSE m \in S : \A n \in S : n <= m

(***************************************************************************)
(* C11: after N draws (next_single / next_double) from the load-balancing  *)
(* generator, the difference between the largest and the smallest          *)
(* per-column placement count is bounded by a small constant independent   *)
(* of N.                                                                   *)
(***************************************************************************)
\* the largest minus the smallest per-column placement count
SpreadDifference ==
    Max({spread.generated[x] : x \in Cols}) - Min({spread.generated[x] : x \in Cols})

RECURSIVE OneByOne(_, _)
OneByOne(animations, frames) ==
    IF frames = 0 THEN animations
    ELSE OneByOne(StreamAdvance(animations, 1), frames - 1)

C12_StreamAdvanceIsFrameByFrame ==
    stream.op = "advance_frames" =>
        /\ stream.animations = OneByOne(stream.pre, stream.arg)
        /\ StreamFrame(stream.animations)
              = StreamFrame(OneByOne(stream.pre, stream.arg))

\* one call that ended the head and advanced the animation behind it
C12_Witness ==
    /\ stream.op = "advance_frames"
    /\ stream.arg >= 2
    /\ Len(stream.pre) >= 2
    /\ Len(stream.animations) = Len(stream.pre) - 1
    /\ stream.animations[1].elapsed > 0

(***************************************************************************)
(* C13: FloatAnimator, after animate() ticks with non-decreasing clock     *)
(* readings: the frame counts passed to the schedule's advance_frames sum  *)
(* to floor((t_last - t_begin) * 60 / 1000), whatever the number and the   *)
(* spacing of the ticks.                                                   *)
(***************************************************************************)
C13_AdvancedFramesAreExact ==
    floating.monotone =>
        /\ ~floating.panicked
        /\ floating.wraps = 0
        /\ floating.advanced = ((floating.now - floating.begin_at) * 60) \div 1000

(***************************************************************************)
(* C14: of two consecutive FloatAnimator.animate() ticks with the same     *)
(* clock reading, the second does not call advance_frames and changes      *)
(* neither elapsed_frames nor the wrapped schedule.                        *)
(***************************************************************************)
C14_SameInstantTickIsFree ==
    (floating.ticks >= 2 /\ floating.now = floating.pre.now) =>
        /\ floating.calls = floating.pre.calls
        /\ floating.elapsed_frames = floating.pre.elapsed_frames
        /\ floating.animation = floating.pre.animation

\* the second of two ticks at an instant for which the schedule was advanced
C14_Witness ==
    /\ floating.ticks = 2
    /\ floating.now = floating.pre.now
    /\ floating.calls = 1
    /\ floating.animation.elapsed > 0

(***************************************************************************)
(* C15: SoundPlayer, under any interleaving of advance_frames(n) and       *)
(* current_frame(): every cue is returned by at most one current_frame()   *)
(* call and once in it, never before the frames advanced reach its offset, *)
(* and by the first current_frame() after they reach it.                   *)
(***************************************************************************)
\* the places <<k, j>> where the samples hold cue i
Returned(i) ==
    {kj \in (1 .. Len(player.samples)) \X (1 .. MaxCues) :
        /\ kj[2] <= Len(player.samples[kj[1]].frame)
        /\ player.samples[kj[1]].frame[kj[2]] = i}

C15_CueReturnedExactlyOnce ==
    \A i \in 1 .. Len(player.given) :
        LET offset == player.given[i][1]
        IN  /\ Cardinality(Returned(i)) <= 1
            /\ \A kj \in Returned(i) :
                  /\ offset <= player.samples[kj[1]].at
                  /\ \A k \in 1 .. kj[1] - 1 : player.samples[k].at < offset
            /\ (player.op = "current_frame" /\ offset <= player.frames_elapsed)
                  => Cardinality(Returned(i)) = 1
            /\ Cardinality(Returned(i))
                  + Cardinality({j \in 1 .. Len(player.current) : player.current[j] = i})
                  + Cardinality({j \in 1 .. Len(player.events) : player.events[j][2] = i})
                  = 1

\* two cues returned by two different calls, the later one after a call
\* that came too early for it
C15_Witness ==
    /\ Len(player.given) = 2
    /\ Len(player.samples) >= 2
    /\ \E k \in 2 .. Len(player.samples) :
          /\ player.samples[1].frame # <<>>
          /\ player.samples[k].frame # <<>>
          /\ player.samples[k].at > 0
    /\ player.events = <<>>
    /\ player.current = <<>>

(***************************************************************************)
(* C16: AnimationStream::push of an animation that is already over leaves  *)
(* the queue unchanged; any other animation is appended at the tail.       *)
(***************************************************************************)
C16_PushRejectsOverAnimations ==
    stream.op = "push" =>
        IF stream.arg.kind = "ConstantAnimation"
              \/ stream.arg.elapsed >= stream.arg.duration
        THEN stream.animations = stream.pre
        ELSE /\ Len(stream.animations) = Len(stream.pre) + 1
             /\ stream.animations[Len(stream.animations)] = stream.arg
             /\ SubSeq(stream.animations, 1, Len(stream.pre)) = stream.pre

\* an animation that is over, offered to a queue that holds others
C16_Witness ==
    /\ stream.op = "push"
    /\ stream.arg = Double(0)
    /\ Len(stream.pre) >= 2
    /\ stream.animations = stream.pre

(***************************************************************************)
(* C17: Animator: advance_frames(n) advances every member by n,            *)
(* current_frame returns the members' samples in insertion order, and      *)
(* is_over holds exactly when every member is over (an empty group is      *)
(* over); the loop "sample, advance 1 frame, stop when over" yields        *)
(* max(1, longest duration) samples.                                       *)
(***************************************************************************)
LongestDuration ==
    Max({0} \cup {animator.members[i].duration : i \in 1 .. Len(animator.members)})

C17_AnimatorRunsMembersInParallel ==
    /\ Len(animator.animations) = Len(animator.members)
    /\ \A i \in 1 .. Len(animator.members) :
          LET m == animator.members[i]
          IN  /\ animator.animations[i].kind = m.kind
              /\ animator.animations[i].duration = m.duration
              /\ animator.animations[i].frame = m.frame
              /\ animator.animations[i].elapsed
                    = IF m.kind = "Double" THEN animator.total ELSE 0
    /\ \A k \in 1 .. Len(animator.samples) :
          /\ Len(animator.samples[k].frame) = Len(animator.members)
          /\ \A i \in 1 .. Len(animator.members) :
                animator.samples[k].frame[i]
                   = IF animator.members[i].kind = "Double"
                     THEN 2 * animator.samples[k].at
                     ELSE animator.members[i].frame
    /\ animator.samples # <<>> =>
          (animator.stopped <=>
              \A i \in 1 .. Len(animator.members) :
                  animator.members[i].kind = "Double"
                     => animator.total >= animator.members[i].duration)
    /\ (animator.stopped /\ animator.unit) =>
          Len(animator.samples) = Max({1, LongestDuration})

\* the group of test_animator, with the longest Double of the model
C17_Witness ==
    /\ animator.members = <<ConstantAnimation(2), Double(MaxDuration)>>
    /\ animator.stopped
    /\ animator.unit
    /\ Len(animator.samples) = MaxDuration

(***************************************************************************)
(* C18: EndlessAnimator never reports itself done: is_over() is false in   *)
(* every reachable state, whether or not the pool holds live members.      *)
(***************************************************************************)
C18_EndlessNeverReportsDone == ~EndlessIsOver(endless.animations)

(***************************************************************************)
(* C19: remove (with an in-bounds coordinate), apply_gravity and feed are  *)
(* total on every board state: remove's work queue empties after at most   *)
(* one pop for the coordinate and one for each neighbour of a removed      *)
(* Bomb, every coordinate it visits lies on the grid, apply_gravity's swap *)
(* target y + blank_cells_below is below HEIGHT, and every call leaves a   *)
(* full grid.                                                              *)
(***************************************************************************)
\* the blank slots apply_gravity has counted when it reaches row y
BlanksBelow(column, y) == Cardinality({b \in Rows : b > y /\ ~column[b].some})

\* the entries remove pops from its queue: the coordinate, and the
\* neighbours of every Bomb it removed
RECURSIVE Pops(_)
Pops(dists) ==
    IF dists = <<>> THEN 1
    ELSE Pops(Tail(dists))
         + IF Head(dists)[5] = "Bomb"
           THEN Len(adjacent_cells(Head(dists)[3], Head(dists)[4], WIDTH, HEIGHT))
           ELSE 0

C19_BoardOperationsAreTotal ==
    /\ DOMAIN cells = Cols
    /\ \A x \in Cols : DOMAIN cells[x] = Rows
    /\ (op.name = "remove" /\ <<op.x, op.y>> \in Slots) =>
          /\ Len(ret) <= Cardinality(Occupied(pre))
          /\ \A i \in 1 .. Len(ret) : RetSlot(i) \in Occupied(pre)
          /\ Pops(ret) <= 1 + 8 * Cardinality(Occupied(pre))
    /\ \A p \in Slots :
          \A adj \in {adjacent_cells(p[1], p[2], WIDTH, HEIGHT)} :
             \A i \in 1 .. Len(adj) : <<adj[i][1], adj[i][2]>> \in Slots
    /\ \A p \in Occupied(cells) :
          /\ SwapTarget(p[2], BlanksBelow(cells[p[1]], p[2])) >= p[2]
          /\ SwapTarget(p[2], BlanksBelow(cells[p[1]], p[2])) < HEIGHT

\* a cell in row 0 over an empty column, the farthest apply_gravity swaps,
\* left there by the removal of a Bomb that visited other slots
C19_Witness ==
    /\ op.name = "remove"
    /\ <<op.x, op.y>> \in Slots
    /\ Pops(ret) > 1
    /\ \E x \in Cols :
          /\ cells[x][0].some
          /\ \A y \in Rows : y > 0 => ~cells[x][y].some

(***************************************************************************)
(* C20: in the normal Game reducer, while the game is over (some column's  *)
(* row-0 slot is occupied, or bombs_removed >= bombs_limit), a Remove      *)
(* action leaves the board, score, bombs_removed and the animation queue   *)
(* unchanged; only Retry leaves the over state.                            *)
(***************************************************************************)
\* the game g is over
Over(g) ==
    \/ \E x \in Cols : g.cells[x][0].some
    \/ g.bombs_removed >= g.bombs_limit

C20_RemoveIsIgnoredWhenOver ==
    /\ (dispatched.action.name = "Remove" /\ Over(dispatched.pre)) =>
          /\ game.cells = dispatched.pre.cells
          /\ game.generated_cells = dispatched.pre.generated_cells
          /\ game.score = dispatched.pre.score
          /\ game.bombs_removed = dispatched.pre.bombs_removed
          /\ game.queue = dispatched.pre.queue
    /\ (Over(dispatched.pre) /\ ~Over(game)) => dispatched.action.name = "Retry"

\* a Remove aimed at a cell of a board whose row 0 is occupied, after a
\* Remove that scored
C20_Witness ==
    /\ dispatched.action.name = "Remove"
    /\ Over(dispatched.pre)
    /\ dispatched.pre.bombs_removed < dispatched.pre.bombs_limit
    /\ dispatched.pre.score > 0
    /\ dispatched.pre.cells[dispatched.action.x][dispatched.action.y].some

(***************************************************************************)
(* C21: AnimationChain of two animations with fixed durations d1 and d2,   *)
(* after F frames passed through any split into advance_frames calls: the  *)
(* first has received min(F, d1) frames and the second max(0, F - d1); the *)
(* chain is over iff F >= d1 + d2; current_frame comes from the first      *)
(* while F < d1 and from the second afterwards.                            *)
(***************************************************************************)
C21_ChainSplitsFramesInOrder ==
    LET F == chain.frames
        d1 == chain.animation_1.duration
        d2 == chain.animation_2.duration
    IN  /\ chain.animation_1.elapsed = Min({F, d1})
        /\ chain.animation_2.elapsed = Max({0, F - d1})
        /\ ChainIsOver(chain) <=> F >= d1 + d2
        /\ ChainFrame(chain) = IF F < d1 THEN current_frame(chain.animation_1)
                               ELSE current_frame(chain.animation_2)
        /\ ChainFrame(chain) = IF F < d1 THEN 2 * F ELSE 2 * (F - d1)

\* one call of 3 frames that ended the first animation after 1 of them and
\* gave the other 2 to the second
C21_Witness ==
    /\ chain.animation_1.duration = 2
    /\ chain.animation_2.duration = 3
    /\ chain.frames = 4
    /\ chain.arg = 3

(***************************************************************************)
(* C22: AnimationStream plays in push order: current_frame() is None iff   *)
(* the queue is empty, otherwise it is the sample of the earliest-pushed   *)
(* animation not yet discarded; no animation behind the head receives a    *)
(* frame or is sampled before every animation pushed before it has been    *)
(* discarded.                                                              *)
(***************************************************************************)
\* the number of animations discarded so far
Discarded == Len(stream.pushed) - Len(stream.animations)

C22_StreamPlaysInPushOrder ==
    /\ Discarded >= 0
    \* the queue is what was pushed, less the animations pushed first
    /\ \A i \in 1 .. Len(stream.animations) :
          /\ stream.animations[i].kind = stream.pushed[Discarded + i].kind
          /\ stream.animations[i].duration = stream.pushed[Discarded + i].duration
          \* behind the head nothing has received a frame
          /\ i > 1 => stream.animations[i] = stream.pushed[Discarded + i]
    /\ stream.op # "new" =>
          /\ stream.sample = None <=> stream.animations = <<>>
          /\ stream.animations # <<>> =>
                stream.sample = [some |-> TRUE,
                                 frame |-> current_frame(stream.animations[1])]

\* the second animation pushed is at the head, part played, with a third
\* behind it that differs from it
C22_Witness ==
    /\ Discarded = 1
    /\ Len(stream.animations) = 2
    /\ stream.animations[1].elapsed > 0
    /\ stream.animations[1].duration # stream.animations[2].duration
    /\ stream.pushed[1].duration # stream.pushed[2].duration
    /\ stream.sample = [some |-> TRUE, frame |-> 2 * stream.animations[1].elapsed]

(***************************************************************************)
(* C23: AnimationStream.advance_frames on a queue of animations with fixed *)
(* durations d1..dk, each >= 1: after F frames in total, animation j has   *)
(* been discarded iff d1 + ... + dj <= F, the head has elapsed F minus the *)
(* durations of the discarded ones, and the frames left over once the      *)
(* queue is empty are dropped.                                             *)
(***************************************************************************)
\* d1 + ... + dj
RECURSIVE DurationsTo(_)
DurationsTo(j) ==
    IF j = 0 THEN 0 ELSE DurationsTo(j - 1) + stream.pushed[j].duration

C23_StreamDiscardsByDurations ==
    ~stream.late =>
        /\ \A j \in 1 .. Len(stream.pushed) :
              /\ stream.pushed[j].duration >= 1
              /\ j <= Discarded <=> DurationsTo(j) <= stream.frames
        /\ stream.animations # <<>> =>
              stream.animations[1].elapsed = stream.frames - DurationsTo(Discarded)
        /\ stream.frames >= DurationsTo(Len(stream.pushed)) =>
              stream.animations = <<>>

\* one call that discarded two animations, advanced the third and was the
\* first call to pass any frame
C23_Witness ==
    /\ ~stream.late
    /\ stream.op = "advance_frames"
    /\ stream.arg = stream.frames
    /\ Len(stream.pushed) = 3
    /\ Discarded = 2
    /\ stream.animations[1].elapsed = 1

(***************************************************************************)
(* C24: an animation pushed onto the running schedule while the            *)
(* AnimationStream is empty is, at every later tick, advanced in total by  *)
(* no more virtual frames than have elapsed since it was pushed:           *)
(* frames received <= floor((t_tick - t_begin) * 60 / 1000)                *)
(*                     - floor((t_push - t_begin) * 60 / 1000).            *)
(***************************************************************************)
C24_PushedAnimationNeverAhead ==
    (schedule.pushed /\ schedule.op = "animate") =>
        schedule.received
           <= ((schedule.now - schedule.begin_at) * 60) \div 1000
              - ((schedule.pushed_at - schedule.begin_at) * 60) \div 1000

(***************************************************************************)
(* C25: EndlessAnimator: after every advance_frames call no member that is *)
(* over remains in the pool, every member that is not over remains and has *)
(* been advanced by the same frame count, and push adds a member at any    *)
(* time without changing the others.                                       *)
(***************************************************************************)
\* the member a as it is after n frames
After(a, n) == IF a.kind = "Double" THEN [a EXCEPT !.elapsed = a.elapsed + n] ELSE a

\* a is over
Done(a) == a.kind = "ConstantAnimation" \/ a.elapsed >= a.duration

\* how many members of the pool are equal to a
Count(pool, a) == Cardinality({i \in 1 .. Len(pool) : pool[i] = a})

C25_EndlessPrunesExactlyTheOver ==
    /\ endless.op = "advance_frames" =>
          LET was == [i \in 1 .. Len(endless.pre) |->
                         After(endless.pre[i], endless.arg)]
          IN  /\ \A i \in 1 .. Len(endless.animations) :
                    ~Done(endless.animations[i])
              /\ \A i \in 1 .. Len(was) :
                    ~Done(was[i]) =>
                        Count(endless.animations, was[i]) = Count(was, was[i])
              /\ \A i \in 1 .. Len(endless.animations) :
                    Count(was, endless.animations[i]) > 0
    /\ endless.op = "push" =>
          /\ Len(endless.animations) = Len(endless.pre) + 1
          /\ endless.animations[Len(endless.animations)] = endless.arg
          /\ \A i \in 1 .. Len(endless.pre) :
                endless.animations[i] = endless.pre[i]

\* one advance that found a member already over, ended a second and left a
\* third running
C25_Witness ==
    /\ endless.op = "advance_frames"
    /\ endless.arg >= 1
    /\ Len(endless.pre) = 3
    /\ Len(endless.animations) = 1
    /\ \E i \in 1 .. 3 : endless.pre[i].kind = "ConstantAnimation"
    /\ \E i \in 1 .. 3 : endless.pre[i].kind = "Double" /\ ~Done(endless.pre[i])
                         /\ Done(After(endless.pre[i], endless.arg))
    /\ endless.animations[1].elapsed >= 1

(***************************************************************************)
(* C26: SoundPlayer releases cues in ascending order of trigger offset:    *)
(* the lists returned by successive current_frame() calls, concatenated,   *)
(* give the cues in non-decreasing offset order, whatever the order at     *)
(* construction and however the advance calls are split; cues with offset  *)
(* 0 are ready at construction, before any advance.                        *)
(***************************************************************************)
\* what the first k current_frame calls returned, concatenated
RECURSIVE Released(_)
Released(k) ==
    IF k = 0 THEN <<>> ELSE Released(k - 1) \o player.samples[k].frame

C26_CuesReleasedInOffsetOrder ==
    LET released == Released(Len(player.samples)) \o player.current
    IN  /\ \A a \in 1 .. Len(released), b \in 1 .. Len(released) :
              a < b => player.given[released[a]][1] <= player.given[released[b]][1]
        /\ player.op = "new" =>
              \A i \in 1 .. Len(player.given) :
                  player.given[i][1] = 0
                      <=> \E j \in 1 .. Len(player.current) : player.current[j] = i

\* two cues given latest first, returned earliest first by two calls
C26_Witness ==
    /\ Len(player.given) = 2
    /\ player.given[1][1] > player.given[2][1]
    /\ player.given[2][1] > 0
    /\ Len(player.samples) >= 2
    /\ Released(Len(player.samples)) = <<2, 1>>
    /\ player.samples[Len(player.samples)].frame = <<1>>

(***************************************************************************)
(* C27: CellAnimator and ParticleAnimator: is_over() holds iff             *)
(* elapsed >= delay + duration and stays true once true; the interpolation *)
(* progress is min(max(elapsed - delay, 0), duration): 0 throughout the    *)
(* delay, non-decreasing in elapsed, and equal to duration whenever the    *)
(* animator is over.                                                       *)
(***************************************************************************)
C27_ProgressIsClampedAndOverIsFinal ==
    LET a == timed.animation
        progress == CellProgress(a)
    IN  /\ CellIsOver(a) <=> a.elapsed >= a.delay + a.duration
        /\ timed.was_over => CellIsOver(a)
        /\ progress = Min({Max({a.elapsed - a.delay, 0}), a.duration})
        /\ a.elapsed <= a.delay => progress = 0
        /\ progress >= CellProgress(timed.pre)
        /\ CellIsOver(a) => progress = a.duration

\* an animator advanced within its delay, then through its interpolation
\* and past its end
C27_Witness ==
    /\ timed.animation.delay = MaxDelay
    /\ timed.animation.duration >= 2
    /\ timed.op = "advance_frames"
    /\ timed.was_over
    /\ timed.arg >= 1
    /\ timed.animation.elapsed > timed.animation.delay + timed.animation.duration

(***************************************************************************)
(* C28: NumberAnimator: for any current value and any target given by      *)
(* set_target, if the target then stays fixed, repeated one-frame advances *)
(* bring current_frame() to exactly the target after finitely many frames, *)
(* and it stays there.  A one-frame advance is a function of current and   *)
(* target alone, so current reaches the target only if no advance short of *)
(* the target leaves current where it was.                                 *)
(***************************************************************************)
C28_NumberReachesTarget ==
    /\ (number.op = "advance_frames" /\ number.arg = 1
           /\ number.current = number.pre.current)
          => number.current = number.target
    /\ (number.op = "advance_frames" /\ number.pre.current = number.target)
          => number.current = number.target

(***************************************************************************)
(* C29: NumberAnimator: whenever current <= target, one frame of advance   *)
(* yields a value v with current < v <= target if current < target, and    *)
(* v = target if current = target; a target approached from below is never *)
(* overshot.                                                               *)
(***************************************************************************)
C29_NumberClimbsWithoutOvershoot ==
    (number.op = "advance_frames" /\ number.pre.current <= number.target) =>
        /\ number.current <= number.target
        /\ number.pre.current <= number.current
        /\ (number.arg = 1 /\ number.pre.current < number.target) =>
              number.pre.current < number.current
        /\ number.pre.current = number.target => number.current = number.target

\* the last step of a climb of several frames to a target that was set by
\* set_target
C29_Witness ==
    /\ number.op = "advance_frames"
    /\ number.arg = 1
    /\ number.targets >= 1
    /\ number.frames >= 3
    /\ number.pre.current = number.target - 1
    /\ number.current = number.target
    /\ number.target = MaxTarget

(***************************************************************************)
(* C30: SpreadBombGenerator.next_double returns two distinct in-range      *)
(* columns and increments exactly those two placement counters by one      *)
(* each; next_single returns one in-range column and increments exactly    *)
(* that counter; a column with weight 0 is never selected.                 *)
(***************************************************************************)
\* the weights a pick can meet: any, some of them 0, not all
WeightVectors == {w \in [Cols -> 0 .. 2] : SumTo(w, WIDTH - 1) > 0}

C30_DrawsAreDistinctAndCounted ==
    /\ spread.op = "next_double" =>
          /\ Len(spread.ret) = 2
          /\ spread.ret[1] \in Cols /\ spread.ret[2] \in Cols
          /\ spread.ret[1] # spread.ret[2]
          /\ \A x \in Cols :
                spread.generated[x]
                   = spread.pre[x] + (IF x \in {spread.ret[1], spread.ret[2]}
                                      THEN 1 ELSE 0)
    /\ spread.op = "next_single" =>
          /\ Len(spread.ret) = 1
          /\ spread.ret[1] \in Cols
          /\ \A x \in Cols :
                spread.generated[x]
                   = spread.pre[x] + (IF x = spread.ret[1] THEN 1 ELSE 0)
    /\ \A w \in WeightVectors :
          \A r \in 0 .. SumTo(w, WIDTH - 1) - 1 : w[Pick(w, r)] > 0

\* a next_double on uneven counters whose first pick was a column at the
\* maximum and whose second pick lies before it
C30_Witness ==
    /\ spread.op = "next_double"
    /\ spread.pre[spread.ret[1]] = Max({spread.pre[x] : x \in Cols})
    /\ spread.pre[spread.ret[2]] < spread.pre[spread.ret[1]]
    /\ spread.ret[2] < spread.ret[1]

(***************************************************************************)
(* C31: in the normal Game reducer, while the game is not over, a          *)
(* Remove(x, y) that destroys n >= 1 cells of which b are Bombs adds       *)
(* n(n+1)/2 to score and b to bombs_removed, then applies gravity, then    *)
(* feeds exactly one new row, in that order; a Remove aimed at an empty    *)
(* slot changes neither the board, score, bombs_removed nor the queue and  *)
(* feeds no row.                                                           *)
(***************************************************************************)
\* the ids of the cells of the board before the action that the board
\* after it no longer holds
Gone == Ids(dispatched.pre.cells) \ Ids(game.cells)

\* the Bombs among them
GoneBombs ==
    {p \in Occupied(dispatched.pre.cells) :
        /\ At(dispatched.pre.cells, p).id \in Gone
        /\ At(dispatched.pre.cells, p).cell_type = "Bomb"}

\* the steps a scoring Remove leaves in the queue, in the order pushed
StepsOfRemove(removed) ==
    IF \A p \in Slots : ~At(removed, p).some
    THEN <<"remove", "feed">>
    ELSE <<"remove", "apply_gravity", "feed">>

C31_RemoveScoresSettlesAndFeeds ==
    (dispatched.action.name = "Remove" /\ ~Over(dispatched.pre)) =>
        LET p == dispatched.pre
            x == dispatched.action.x
            y == dispatched.action.y
            n == Cardinality(Gone)
            removed == BoardRemove(p.cells, x, y).cells
            fallen == BoardApplyGravity(removed).cells
        IN  IF p.cells[x][y].some
            THEN /\ n >= 1
                 /\ game.score = p.score + (n * (n + 1)) \div 2
                 /\ game.bombs_removed = p.bombs_removed + Cardinality(GoneBombs)
                 /\ \E d \in Draws(p.shuffled) :
                       /\ game.cells =
                             BoardFeed(fallen, p.generated_cells,
                                       RowOfBombs(d.bombs)).cells
                       /\ game.shuffled = d.shuffled
                 /\ game.generated_cells = p.generated_cells + WIDTH
                 /\ Cardinality(Ids(game.cells) \ Ids(p.cells)) = WIDTH
                 /\ game.queue = p.queue \o StepsOfRemove(removed)
            ELSE game = p

\* a second scoring Remove: a Bomb that takes a neighbour with it and
\* leaves another cell on the board, with steps still queued
C31_Witness ==
    /\ dispatched.action.name = "Remove"
    /\ ~Over(dispatched.pre)
    /\ dispatched.pre.score > 0
    /\ dispatched.pre.queue # <<>>
    /\ Cardinality(Gone) >= 2
    /\ Cardinality(GoneBombs) >= 1
    /\ Ids(dispatched.pre.cells) \ Gone # {}
    /\ game.score >= dispatched.pre.score + 3

(***************************************************************************)
(* C35: in the normal Game, after every reducer action the board is        *)
(* gravity-settled: in no column does an empty slot lie below an occupied  *)
(* one.                                                                    *)
(***************************************************************************)
C35_BoardSettledAfterEveryAction ==
    /\ Settled(game.cells)
    /\ Settled(dispatched.pre.cells)

\* a Remove that left a cell hanging over the emptied slot, after an
\* earlier Remove that scored
C35_Witness ==
    /\ dispatched.action.name = "Remove"
    /\ ~Over(dispatched.pre)
    /\ dispatched.pre.score > 0
    /\ ~Settled(BoardRemove(dispatched.pre.cells, dispatched.action.x,
                            dispatched.action.y).cells)

(***************************************************************************)
(* C37: in the normal Game, on the runs of the initial Feed followed by    *)
(* Remove, Animate and Retry actions, feed is never applied to a board     *)
(* with some column's row-0 slot occupied, so no cell is ever dropped by   *)
(* a feed.                                                                 *)
(***************************************************************************)
\* the last action fed a row: Feed and Retry always, Remove when it
\* destroyed a cell
Fed ==
    \/ dispatched.action.name \in {"Feed", "Retry"}
    \/ /\ dispatched.action.name = "Remove"
       /\ Ids(game.cells) \ Ids(dispatched.pre.cells) # {}

\* the board the row was fed to
FedBoard ==
    CASE dispatched.action.name = "Feed" -> dispatched.pre.cells
      [] dispatched.action.name = "Retry" -> BoardNew
      [] OTHER ->
            BoardApplyGravity(
                BoardRemove(dispatched.pre.cells, dispatched.action.x,
                            dispatched.action.y).cells).cells

C37_FeedNeverOnOccupiedTopRow ==
    Fed => /\ \A x \in Cols : ~FedBoard[x][0].some
           /\ \A p \in Occupied(FedBoard) :
                 /\ p[2] > 0
                 /\ game.cells[p[1]][p[2] - 1] = At(FedBoard, p)

\* the feed of a Remove that fills the board to the top row, leaving the
\* game over
C37_Witness ==
    /\ dispatched.action.name = "Remove"
    /\ Fed
    /\ \E x \in Cols : FedBoard[x][1].some
    /\ \E x \in Cols : game.cells[x][0].some

(***************************************************************************)
(* C33: in the AnimatedBoard's queue a step (visuals zipped with a         *)
(* SoundPlayer zipped with a particle batch) is discarded only after every *)
(* one of its sound cues has been returned by a sample and its particle    *)
(* batch has been taken by a sample; no cue and no particle batch is lost, *)
(* also when one tick advances many frames.                                *)
(***************************************************************************)
\* the labels of the cues step id was built from
CuesOf(id) ==
    {steps.given[id].events[i][2] : i \in 1 .. Len(steps.given[id].events)}

\* the ids of the steps in the queue
Queued == {steps.queue[i].id : i \in 1 .. Len(steps.queue)}

C33_StepDiscardedOnlyOnceDelivered ==
    \A id \in 1 .. Len(steps.given) :
        /\ id \in steps.discarded =>
              /\ {steps.returned[id][k] : k \in 1 .. Len(steps.returned[id])}
                    = CuesOf(id)
              /\ steps.taken[id] = steps.given[id].particles
        /\ Len(steps.returned[id])
              = Cardinality({steps.returned[id][k] :
                                k \in 1 .. Len(steps.returned[id])})
        /\ {steps.returned[id][k] : k \in 1 .. Len(steps.returned[id])}
              \subseteq CuesOf(id)
        /\ \/ id \in Queued
           \/ id \in steps.discarded
           \/ steps.given[id].events = <<>> /\ steps.given[id].particles = <<>>

\* two steps discarded, one of them built of two cues and a particle batch,
\* after a tick of several frames that discarded one and went on to the next
C33_Witness ==
    /\ steps.burst
    /\ Cardinality(steps.discarded) = 2
    /\ \E id \in steps.discarded :
          /\ Cardinality(CuesOf(id)) = 2
          /\ steps.given[id].particles # <<>>

(***************************************************************************)
(* C34: if no further animation is pushed and ticks with a positive frame  *)
(* delta keep occurring, with frame() sampled after each tick, the         *)
(* AnimatedBoard's queue eventually becomes empty and then stays empty.    *)
(***************************************************************************)
C34_QueueEmptiesAndStaysEmpty == <>[](steps.queue = <<>>)

\* the queue empty again after two steps with cues went through it
C34_Witness ==
    /\ steps.queue = <<>>
    /\ Cardinality(steps.discarded) = 2
    /\ \A id \in steps.discarded : CuesOf(id) # {}

(***************************************************************************)
(* C36: every board reachable from the empty Board by feed, remove and     *)
(* apply_gravity has pairwise distinct ids and, within each column, ids    *)
(* strictly increasing from the top row to the bottom row.                 *)
(***************************************************************************)
C36_IdsDistinctAndIncreasingDownColumns ==
    /\ \A p \in Occupied(cells) : \A q \in Occupied(cells) :
          p # q => At(cells, p).id # At(cells, q).id
    /\ \A x \in Cols : \A y1 \in Rows : \A y2 \in Rows :
          (y1 < y2 /\ cells[x][y1].some /\ cells[x][y2].some)
              => cells[x][y1].id < cells[x][y2].id

\* an apply_gravity that drops a cell, leaving a column of two cells or
\* more, on a board fed three times that has lost cells to a remove
C36_Witness ==
    /\ op.name = "apply_gravity"
    /\ cells # pre
    /\ Len(minted) >= 3 * WIDTH
    /\ Cardinality(Ids(cells)) < Len(minted)
    /\ \E x \in Cols : cells[x][HEIGHT - 2].some /\ cells[x][HEIGHT - 2] # pre[x][HEIGHT - 2]

(***************************************************************************)
(* C32: Board operations are deterministic in the call sequence: the       *)
(* online client's board, replaying the server's Remove {x, y} and         *)
(* Feed {row} messages in order, equals the server's board.                *)
(***************************************************************************)
\* the board b after the messages of wire, in order
RECURSIVE Replayed(_, _)
Replayed(b, wire) ==
    IF wire = <<>> THEN b ELSE Replayed(OnlineReduce(b, Head(wire)), Tail(wire))

C32_ClientReplayEqualsServerBoard ==
    /\ Replayed(online.client, online.wire) = online.board
    /\ online.wire = <<>> => online.client = online.board

\* the client has caught up with a server that handled a Remove which made
\* cells fall, and a Remove of an empty slot
C32_Witness ==
    /\ online.wire = <<>>
    /\ online.read >= 3
    /\ online.ignored >= 1
    /\ \E p \in Occupied(online.client.cells) : p[2] < HEIGHT - 1
    /\ \E x \in Cols : ~online.client.cells[x][HEIGHT - 2].some

(***************************************************************************)
(* C39: a FloatAnimator.animate() tick whose clock reading is earlier than *)
(* the reading of the previous tick does not advance the schedule: the     *)
(* subtraction frames - elapsed_frames never underflows or wraps.          *)
(***************************************************************************)
C39_BackwardClockDoesNotAdvance ==
    (floating.ticks >= 1 /\ floating.now < floating.pre.now) =>
        /\ ~floating.panicked
        /\ floating.calls = floating.pre.calls
        /\ floating.animation = floating.pre.animation

(***************************************************************************)
(* C40: each Matchmaker round groups the waiting players into disjoint     *)
(* pairs of distinct players, removes the paired players from the waiting  *)
(* set, starts one Game per pair and sends each of them one JoinGame and   *)
(* one initial Feed; at most one player is left waiting; a player whose    *)
(* Leave was handled before the round is not paired by it.                 *)
(***************************************************************************)
\* the players the last round paired
Paired ==
    {lobby.round.pairs[i][k] : i \in 1 .. Len(lobby.round.pairs), k \in 1 .. 2}

\* how many messages of this type and game the sequence holds
Sent(messages, type, addr) ==
    Cardinality({i \in 1 .. Len(messages) :
                    messages[i].type = type /\ messages[i].game = addr})

\* how many Feeds for the player wait in the mailbox
Pending(mailbox, who) ==
    Cardinality({i \in 1 .. Len(mailbox) : mailbox[i] = who})

C40_RoundPairsTheWaitingPlayers ==
    /\ Cardinality(Paired) = 2 * Len(lobby.round.pairs)
    /\ Paired \subseteq lobby.round.before
    /\ lobby.round.after = lobby.round.before \ Paired
    /\ Cardinality(lobby.round.after) <= 1
    /\ Paired \cap lobby.round.gone = {}
    /\ Len(lobby.games) >= lobby.round.games + Len(lobby.round.pairs)
    /\ lobby.rounds = 1 =>
          Len(lobby.games) = lobby.round.games + Len(lobby.round.pairs)
    /\ \A i \in 1 .. Len(lobby.round.pairs) :
          LET addr == lobby.round.games + i
          IN  /\ lobby.games[addr].participants
                    = {lobby.round.pairs[i][1], lobby.round.pairs[i][2]}
              /\ \A who \in Players :
                    LET n == IF who \in lobby.games[addr].participants
                             THEN 1 ELSE 0
                    IN  /\ Sent(lobby.inbox[who], "JoinGame", addr) = n
                        /\ Sent(lobby.inbox[who], "Feed", addr)
                              + Pending(lobby.games[addr].mailbox, who) = n

\* a round that found three players waiting and a fourth gone, and whose
\* Game has handled both Feeds
C40_Witness ==
    /\ Cardinality(lobby.round.before) = 3
    /\ lobby.round.gone # {}
    /\ Len(lobby.round.pairs) = 1
    /\ lobby.games[lobby.round.games + 1].mailbox = <<>>
    /\ \A who \in Paired :
          Sent(lobby.inbox[who], "Feed", lobby.round.games + 1) = 1

\* C38: whenever the hard game's reducer calls AnimatedBoard::reset, the
\* index HEIGHT - y - 1 of every Bomb on the board is within
\* PARTICLE_COLORS, so that reset never indexes out of range
C38_ResetIndexesWithinParticleColors ==
    /\ ~hard.panicked
    /\ \A i \in hard.looked_up : i \in 0 .. PARTICLE_COLORS - 1

====
